---- MODULE Spec2Model ----
(***************************************************************************)
(* VoiceCode: the pipeline orchestrator (voicecode/main.py) together with  *)
(* the collaborators whose threads call into it: the hotkey listener       *)
(* (voicecode/hotkey/listener.py), the audio recorder                      *)
(* (voicecode/audio/recorder.py), the tray thread and the worker threads.  *)
(*                                                                         *)
(* Threads: the pynput listener thread (key presses and releases, one      *)
(* callback at a time), the idle-timeout Timer threads, the tray thread    *)
(* (reset, quit), the settings thread, the poll Timer chain (dispatch      *)
(* loop), the recorder thread and one thread per recognition / injection   *)
(* attempt.  A callback is split where it releases VoiceCodeApp._lock.     *)
(*                                                                         *)
(* Ghost state (not in the program): session and attempt numbers, the      *)
(* call counters, the set of sessions cancelled by a reset, and `last',    *)
(* the operation performed by the latest step.                             *)
(***************************************************************************)
EXTENDS Integers, Sequences, FiniteSets, TLC

\* ---------------------------------------------------------------- bounds
MaxSessions == 2        \* accepted activation edges per run
MaxFrames == 1          \* audio chunks captured per recording
MaxTimers == 1          \* idle-timeout Timer threads alive at once
ChordSize == 2          \* keys of the configured hotkey chord
MaxEngines == 2         \* engines built by _build_cli in one run
MaxSendThreads == 2     \* threads `send' started in one run
MaxStarts == 2          \* recordings started by start_recording in one run
MaxChunks == 2          \* chunks appended to one list of frames
MaxStopCallers == 2     \* threads that call stop_recording

\* ------------------------------------------------------- program constants

EVENT_RECORDING_STOPPED == "recording_stopped"
EVENT_RECOGNITION_RESULT == "recognition_result"
EVENT_RECOGNITION_ERROR == "recognition_error"
EVENT_SEND_COMPLETE == "send_complete"
EVENT_SEND_ERROR == "send_error"

States == {"IDLE", "RECORDING", "RECOGNIZING", "SENDING"}

\* texts the speech client may return: empty, blank, and padded text
Texts == {<<>>, <<" ", "\n">>, <<" ", "a", "\"", "\n", "+", "b">>}

Sessions == 1..MaxSessions
Attempts == 1..(2 * MaxSessions)
TimerIds == 1..MaxTimers

VARIABLES
    state,        \* VoiceCodeApp._state
    queue,        \* VoiceCodeApp._queue
    running,      \* VoiceCodeApp._running
    speech,       \* VoiceCodeApp._speech is not None
    trayStatus,   \* icon shown by TrayIcon.set_status
    trayAlive,    \* the tray menu still delivers reset / settings / quit
    dispPc,       \* poll Timer chain: "waiting", "polling", "stopped"
    recording,    \* AudioRecorder._recording
    frames,       \* number of chunks in AudioRecorder._frames
    clipOpen,     \* ghost: start_recording began a clip that no call of
                  \*        stop_recording has ended yet
    hkActive,     \* HotkeyListener._active
    hkKeys,       \* number of chord keys in HotKey._state
    listening,    \* HotkeyListener._listener is not None
    lisPc,        \* listener thread: "idle", "act_mid", "deact_mid"
    lisSess,      \* ghost: session of the callback the listener thread is in
    timers,       \* idle-timeout Timer threads: [pc, sess]
    resetPc,      \* tray thread inside _reset: "idle", "mid"
    workers,      \* running worker threads: [id, kind, sess, text]
    nSess,        \* ghost: number of accepted activation edges
    nAttempts,    \* ghost: number of worker threads started
    cancelled,    \* ghost: sessions cancelled by a manual reset
    resetSeen,    \* ghost: a manual reset has happened in this run
    recogCalls,   \* ghost: recognize() invocations per session
    sendCalls,    \* ghost: send_message() invocations per session
    posts,        \* ghost: events posted per worker attempt
    failed,       \* ghost: a recognition or injection failure was handled and
                  \*        no deactivation edge has been accepted since
    appCli,       \* VoiceCodeApp._cli: which of the engines built so far
    lastErrors,   \* OpenCodeCLI.last_error of each engine built so far
    sends,        \* threads `send': [pc, cli, ok, posted]
    recorder,     \* the AudioRecorder at the grain of its threads
    last,         \* ghost: the latest step [op, sess, notes]: the operation,
                  \*        its session, the show_message calls reporting a failure
    config,       \* Config._data: [window_title_keyword, send_key]
    cli,          \* VoiceCodeApp._cli, the OpenCodeCLI object, with the frame
                  \* of its send_message call
    pywinauto,    \* the import of pywinauto succeeded (Desktop, send_keys)
    polled        \* the top-level windows the latest poll of
                  \* _find_opencode_window_uia met, in the order of EnumWindows

orch == <<state, queue, running, speech, trayStatus, trayAlive, dispPc>>
rec == <<recording, frames, clipOpen>>
hk == <<hkActive, hkKeys, listening, lisPc, lisSess, timers>>
ghost == <<nSess, nAttempts, cancelled, resetSeen, recogCalls, sendCalls,
           posts, failed>>
app == <<orch, rec, hk, resetPc, workers, ghost, last>>
threads == <<appCli, lastErrors, sends, recorder>>
engine == <<config, cli, pywinauto, polled, threads>>
vars == <<app, engine>>

\* ---------------------------------------------------------------- helpers
\* the whitespace str.strip() removes, of the characters used here
Whitespace == {" ", "\t", "\n"}

RECURSIVE lstrip(_)
lstrip(s) ==
    IF s # <<>> /\ Head(s) \in Whitespace THEN lstrip(Tail(s)) ELSE s

RECURSIVE rstrip(_)
rstrip(s) ==
    IF s # <<>> /\ s[Len(s)] \in Whitespace
    THEN rstrip(SubSeq(s, 1, Len(s) - 1))
    ELSE s

\* str.strip()
strip(s) == rstrip(lstrip(s))

Event(kind, sess, audio, text) ==
    [kind |-> kind, sess |-> sess, audio |-> audio, text |-> text]

Step(op, sess, notes) ==
    last' = [op |-> op, sess |-> sess, notes |-> notes]

\* _enqueue
enqueue(ev) == queue' = Append(queue, ev)

NoTimer == [pc |-> "off", sess |-> 0]

\* HotkeyListener._cancel_timer: a Timer that has not fired yet never fires
cancel_timer(ts) ==
    [t \in TimerIds |-> IF ts[t].pc = "armed" THEN NoTimer ELSE ts[t]]

FreeTimers(ts) == {t \in TimerIds : ts[t].pc = "off"}

\* HotkeyListener._start_timer: cancel the pending Timer, start a new one
start_timer(ts) ==
    LET c == cancel_timer(ts)
        t == CHOOSE x \in FreeTimers(c) : \A y \in FreeTimers(c) : x <= y
    IN  [c EXCEPT ![t] = [pc |-> "armed", sess |-> 0]]

\* AudioRecorder.start_recording
start_recording ==
    IF recording
    THEN UNCHANGED <<recording, frames, clipOpen>>
    ELSE recording' = TRUE /\ frames' = 0 /\ clipOpen' = TRUE

\* bytes returned by AudioRecorder.stop_recording (as a number of chunks)
stop_recording_result == IF recording THEN frames ELSE 0

\* AudioRecorder.stop_recording
stop_recording ==
    recording' = FALSE /\ clipOpen' = FALSE /\ UNCHANGED frames

\* faulty variant: _to_idle that leaves the state as it is
to_idle_keeps_state == state' = state /\ trayStatus' = "idle"

\* _to_idle
to_idle == state' = "IDLE" /\ trayStatus' = "idle"

\* ------------------------------------------------ strings of the engine
\* a string is a sequence of one-character strings
UPPER ==
    <<"A", "B", "C", "D", "E", "F", "G", "H", "I", "J", "K", "L", "M",
      "N", "O", "P", "Q", "R", "S", "T", "U", "V", "W", "X", "Y", "Z">>
LOWERCASE ==
    <<"a", "b", "c", "d", "e", "f", "g", "h", "i", "j", "k", "l", "m",
      "n", "o", "p", "q", "r", "s", "t", "u", "v", "w", "x", "y", "z">>

lower_char(c) ==
    IF \E i \in DOMAIN UPPER : UPPER[i] = c
    THEN LOWERCASE[CHOOSE i \in DOMAIN UPPER : UPPER[i] = c]
    ELSE c

\* str.lower
RECURSIVE lower(_)
lower(s) ==
    IF s = <<>> THEN <<>> ELSE <<lower_char(Head(s))>> \o lower(Tail(s))

\* the operator `in' of two strings: sub in s
contains(sub, s) ==
    \E i \in 0..(Len(s) - Len(sub)) : SubSeq(s, i + 1, i + Len(sub)) = sub

KW_OPENCODE == <<"O", "p", "e", "n", "C", "o", "d", "e">>
KW_NOTEPAD == <<"N", "o", "t", "e", "p", "a", "d">>
TITLE_UNTITLED ==
    KW_OPENCODE \o <<" ", "-", " ", "u", "n", "t", "i", "t", "l", "e", "d">>
TITLE_LOWER == <<"m", "y", " ", "o", "p", "e", "n", "c", "o", "d", "e">>
IMAGE_OPENCODE ==
    <<"C", ":", "/", "O", "p", "e", "n", "C", "o", "d", "e", ".", "e", "x", "e">>
IMAGE_NOTEPAD ==
    <<"C", ":", "/", "n", "o", "t", "e", "p", "a", "d", ".", "e", "x", "e">>
SK_ENTER == <<"e", "n", "t", "e", "r">>
SK_CTRL_ENTER == <<"c", "t", "r", "l", "+", "e", "n", "t", "e", "r">>
SK_RAW == <<" ", "C", "t", "r", "l", "+", "E", "n", "t", "e", "r", " ">>
SK_OTHER == <<"t", "a", "b">>

\* ------------------------------------------------------- configuration
\* Config.get_window_title_keyword
get_window_title_keyword(cfg) == cfg.window_title_keyword

\* Config.get_send_key
get_send_key(cfg) ==
    LET raw == IF cfg.send_key = <<>> THEN SK_ENTER ELSE cfg.send_key
        value == lower(strip(raw))
    IN  IF value \in {SK_ENTER, SK_CTRL_ENTER} THEN value ELSE SK_ENTER

\* the contents of the configuration file the runs start from
Configs ==
    {[window_title_keyword |-> <<>>, send_key |-> SK_ENTER],
     [window_title_keyword |-> KW_NOTEPAD, send_key |-> SK_RAW],
     [window_title_keyword |-> <<>>, send_key |-> SK_OTHER],
     [window_title_keyword |-> <<>>, send_key |-> <<>>]}

\* the frame of send_message before the first call
NoFrame ==
    [pc |-> "idle", message |-> <<>>, clock |-> 0, last_hwnd |-> FALSE,
     win |-> <<>>, win_rect |-> <<>>, ctrls |-> <<>>,
     win_restore |-> "", win_focus |-> "", enumerated |-> FALSE,
     total |-> 0, order |-> <<>>, idx |-> 0, tried |-> <<>>, acts |-> <<>>,
     delivered |-> <<>>, ret |-> "none", prev |-> FALSE]

\* OpenCodeCLI.__init__
OpenCodeCLI(window_title_keyword, send_key) ==
    [window_title_keyword |->
         IF window_title_keyword = <<>> THEN KW_OPENCODE
         ELSE window_title_keyword,
     send_key |-> lower(strip(IF send_key = <<>> THEN SK_ENTER ELSE send_key)),
     last_error |-> "",
     f |-> NoFrame]

\* VoiceCodeApp._build_cli: window_title_keyword takes its default
build_cli(cfg) == OpenCodeCLI(KW_OPENCODE, get_send_key(cfg))

\* ------------------------------------------------------ error messages
\* the texts assigned to last_error, by the line of cli.py that assigns them
ERR_EMPTY_TEXT == "empty text"                           \* cli.py:28
ERR_CANNOT_LOCATE == "cannot locate or focus the input"  \* cli.py:33
ERR_NO_PYWINAUTO == "pywinauto not installed"            \* cli.py:45
ERR_ENUMERATE == "UIA cannot enumerate the controls"     \* cli.py:80
ERR_NO_CONTROLS == "UIA found no usable control"         \* cli.py:84
ERR_NO_WRITABLE == "UIA found no writable input control" \* cli.py:198-201
ERR_KEYBOARD == "pywinauto keyboard unavailable"         \* cli.py:213
ERR_SUBMIT == "written, but the send key failed"         \* cli.py:223
ERR_HWND_NO_UIA == "window handle found, UIA no access"  \* cli.py:363
ERR_NOT_FOUND == "window not found"                      \* cli.py:365

\* ------------------------------------------------------------- windows
MaxWindows == 2         \* top-level windows on the desktop at one poll
MIN_WINDOW_SIZE == 100  \* looks_like_window: wider and higher than this
DEADLINE == 60          \* 6.0 s, in tenths of a second
SLEEP == 2              \* time.sleep(0.2), in tenths of a second
EXISTS_TIMEOUT == 2     \* win.exists(timeout=0.2), in tenths of a second

Window(title, visible, width, height, image, uia, listed, ct) ==
    [title |-> title, visible |-> visible, width |-> width,
     height |-> height, image |-> image, uia |-> uia, listed |-> listed,
     ct |-> ct]

\* the top-level windows a poll may meet: title, IsWindowVisible, size,
\* process image, whether UIA binds the handle, whether desktop.windows
\* lists the window, control type
Windows ==
    {Window(TITLE_UNTITLED, TRUE, 800, 600, <<>>, TRUE, TRUE, "Window"),
     Window(TITLE_LOWER, TRUE, 800, 600, IMAGE_NOTEPAD, FALSE, TRUE, "Pane"),
     Window(KW_NOTEPAD, TRUE, 800, 600, IMAGE_NOTEPAD, TRUE, TRUE, "Window"),
     Window(KW_NOTEPAD, TRUE, 800, 600, IMAGE_OPENCODE, TRUE, TRUE, "Window"),
     Window(KW_OPENCODE, FALSE, 800, 600, <<>>, TRUE, TRUE, "Window"),
     Window(KW_OPENCODE, TRUE, 100, 600, <<>>, TRUE, TRUE, "Window"),
     Window(KW_OPENCODE, TRUE, 800, 600, <<>>, FALSE, FALSE, "Window")}

\* the desktops a poll may meet: the windows in the order of EnumWindows
Desktops == UNION {[1..n -> Windows] : n \in 0..MaxWindows}

\* _find_hwnd_candidate.looks_like_window
looks_like_window(w) == w.width > MIN_WINDOW_SIZE /\ w.height > MIN_WINDOW_SIZE

\* _find_hwnd_candidate.looks_like_opencode_process
looks_like_opencode_process(path) ==
    LET low == lower(path)
    IN  /\ low # <<>>
        /\ \/ contains(<<"o", "p", "e", "n", "c", "o", "d", "e">>, low)
           \/ contains(<<"o", "p", "e", "n", "-", "c", "o", "d", "e">>, low)
           \/ contains(<<"o", "p", "e", "n", " ", "c", "o", "d", "e">>, low)

\* faulty variant: the title test without lower() on the title
title_matches_case_sensitive(keyword, title) ==
    title # <<>> /\ contains(lower(keyword), title)

\* _find_hwnd_candidate.enum_proc: the test of the title
title_matches(keyword, title) ==
    title # <<>> /\ contains(lower(keyword), lower(title))

\* faulty variant: enum_proc without the tests of IsWindowVisible and of the
\* size
hwnd_matches_without_filters(keyword, w) ==
    title_matches(keyword, w.title) \/ looks_like_opencode_process(w.image)

\* _find_hwnd_candidate.enum_proc: the window stops the enumeration
hwnd_matches(keyword, w) ==
    /\ w.visible
    /\ looks_like_window(w)
    /\ title_matches(keyword, w.title) \/ looks_like_opencode_process(w.image)

\* _find_hwnd_candidate: the first match of EnumWindows, 0 if there is none
find_hwnd_candidate(keyword, desktop) ==
    LET matches == {i \in DOMAIN desktop : hwnd_matches(keyword, desktop[i])}
    IN  IF matches = {} THEN 0
        ELSE CHOOSE i \in matches : \A j \in matches : i <= j

\* desktop.windows(title_re=title_re): the listed windows whose title matches
\* ".*keyword.*" ignoring case
title_re_wins(keyword, desktop) ==
    {i \in DOMAIN desktop :
        /\ desktop[i].listed
        /\ contains(lower(keyword), lower(desktop[i].title))}

\* the score of a window in the UIA fallback; every window of the model
\* lies on the screen (right > 0 and bottom > 0), which gives the 10000
score(w) ==
    (IF w.ct = "Window" THEN 1000000 ELSE 0)
        + (IF w.visible THEN 100000 ELSE 0)
        + 10000
        + w.width * w.height

\* the window the UIA fallback returns: the first one of the highest score
best_of(wins, desktop) ==
    CHOOSE i \in wins :
        \A j \in wins :
            \/ score(desktop[j]) < score(desktop[i])
            \/ score(desktop[j]) = score(desktop[i]) /\ i <= j

\* ------------------------------------------------------------ controls
MaxControls == 3        \* descendant elements of the matched window
FAR_OFFSCREEN == 10000  \* rect.right or rect.bottom below minus this
MIN_BOTTOM_BAND == 220  \* least height of the bottom band
BOTTOM_BAND_PCT == 35   \* win_rect.height() * 0.35
HEIGHT_CAP_PCT == 45    \* win_rect.height() * 0.45
WIDTH_FLOOR_PCT == 30   \* win_rect.width() * 0.30

Rect(left, top, right, bottom) ==
    [left |-> left, top |-> top, right |-> right, bottom |-> bottom]
width(r) == r.right - r.left
height(r) == r.bottom - r.top

\* win.rectangle() of the matched window, when the call succeeds
WIN_RECT == Rect(0, 0, 1000, 1000)

\* a descendant element: control type, is_visible(), is_enabled(),
\* rectangle() (the empty sequence when the call raises), and whether the
\* wrapper has set_edit_text
Control(control_type, visible, enabled, rect, set_edit_text) ==
    [control_type |-> control_type, visible |-> visible,
     enabled |-> enabled, rect |-> rect, set_edit_text |-> set_edit_text]

CTRL_A == Control("Document", TRUE, TRUE, <<Rect(0, 0, 1000, 900)>>, FALSE)
CTRL_B == Control("Edit", TRUE, TRUE, <<Rect(0, 900, 100, 1000)>>, TRUE)
CTRL_C == Control("Edit", TRUE, TRUE, <<Rect(0, 900, 500, 1000)>>, TRUE)

Controls ==
    {CTRL_A, CTRL_B, CTRL_C,
     Control("Edit", TRUE, TRUE, <<Rect(0, 100, 300, 550)>>, TRUE),
     Control("Edit", FALSE, TRUE, <<Rect(0, 900, 500, 1000)>>, TRUE),
     Control("Edit", TRUE, FALSE, <<Rect(0, 900, 500, 1000)>>, TRUE),
     Control("Edit", TRUE, TRUE, <<Rect(0, 900, 0, 1000)>>, TRUE),
     Control("Edit", TRUE, TRUE,
             <<Rect(-20500, -20100, -20000, -20000)>>, TRUE),
     Control("Edit", TRUE, TRUE, <<>>, TRUE),
     Control("Pane", TRUE, TRUE, <<Rect(0, 550, 500, 650)>>, FALSE)}

\* the elements met in the windows with the most descendants
LargeWindowControls ==
    {CTRL_A, CTRL_B, CTRL_C,
     Control("Pane", TRUE, TRUE, <<Rect(0, 550, 500, 650)>>, FALSE)}

\* the descendants of the matched window, in the order UIA returns them:
\* any elements in the windows with fewer than MaxControls descendants
ControlLists ==
    UNION {[1..n -> Controls] : n \in 0..(MaxControls - 1)}
        \union [1..MaxControls -> LargeWindowControls]

Indices(ctrls) == [i \in 1..Len(ctrls) |-> i]

\* win.descendants(control_type="Edit") followed by
\* win.descendants(control_type="Document")
typed_candidates(ctrls) ==
    LET IsEdit(i) == ctrls[i].control_type = "Edit"
        IsDocument(i) == ctrls[i].control_type = "Document"
    IN  SelectSeq(Indices(ctrls), IsEdit) \o SelectSeq(Indices(ctrls), IsDocument)

\* faulty variant: all descendants are candidates, typed or not
candidates_of_all_descendants(ctrls, typed_ok) == Indices(ctrls)

\* the candidates: the typed ones, all descendants when there is none
candidates_of(ctrls, typed_ok) ==
    LET typed == IF typed_ok THEN typed_candidates(ctrls) ELSE <<>>
    IN  IF typed # <<>> THEN typed ELSE Indices(ctrls)

\* the filter loop: the control is appended to `filtered'
passes_filter(c) ==
    /\ c.visible
    /\ c.enabled
    /\ \/ c.rect = <<>>
       \/ LET rect == c.rect[1]
          IN  /\ ~(width(rect) <= 0 \/ height(rect) <= 0)
              /\ ~(rect.right < -FAR_OFFSCREEN \/ rect.bottom < -FAR_OFFSCREEN)

\* `candidates' after the filter: `filtered' unless it is empty
filter_candidates(ctrls, cands) ==
    LET Passes(i) == passes_filter(ctrls[i])
        filtered == SelectSeq(cands, Passes)
    IN  IF filtered # <<>> THEN filtered ELSE cands

\* int(win_rect.height() * 0.45), int(win_rect.width() * 0.30) and
\* int(win_rect.height() * 0.35): for the sizes of WIN_RECT the product of
\* floats truncates to the integer quotient
height_cap(win_rect) == (height(win_rect) * HEIGHT_CAP_PCT) \div 100
width_floor(win_rect) == (width(win_rect) * WIDTH_FLOOR_PCT) \div 100
bottom_band(win_rect) ==
    LET share == (height(win_rect) * BOTTOM_BAND_PCT) \div 100
    IN  IF MIN_BOTTOM_BAND > share THEN MIN_BOTTOM_BAND ELSE share

\* in_bottom_area; win_rect is <<>> when win.rectangle() raised
in_bottom_area(rect, win_rect) ==
    \/ win_rect = <<>>
    \/ rect.bottom >= win_rect[1].bottom - bottom_band(win_rect[1])

\* faulty variant: the partition loop without the two size tests
eligible_any_size(c, win_rect) ==
    /\ c.rect # <<>>
    /\ ~(height(c.rect[1]) <= 0 \/ width(c.rect[1]) <= 0)

\* the partition loop: the control goes to one of the two lists
eligible(c, win_rect) ==
    /\ c.rect # <<>>
    /\ ~(height(c.rect[1]) <= 0 \/ width(c.rect[1]) <= 0)
    /\ win_rect # <<>> =>
           /\ ~(height(c.rect[1]) > height_cap(win_rect[1]))
           /\ ~(width(c.rect[1]) < width_floor(win_rect[1]))

bottom_candidates(ctrls, cands, win_rect) ==
    LET Bottom(i) ==
            eligible(ctrls[i], win_rect)
                /\ in_bottom_area(ctrls[i].rect[1], win_rect)
    IN  SelectSeq(cands, Bottom)

other_candidates(ctrls, cands, win_rect) ==
    LET Other(i) ==
            eligible(ctrls[i], win_rect)
                /\ ~in_bottom_area(ctrls[i].rect[1], win_rect)
    IN  SelectSeq(cands, Other)

\* sort_key(a) < sort_key(b): (has set_edit_text, rect.bottom) as a tuple
key_less(a, b) ==
    LET ka == IF a.set_edit_text THEN 1 ELSE 0
        kb == IF b.set_edit_text THEN 1 ELSE 0
    IN  ka < kb \/ (ka = kb /\ a.rect[1].bottom < b.rect[1].bottom)

\* list.sort(key=sort_key, reverse=True): descending, and stable (controls
\* of equal key keep their order)
RECURSIVE sort_reverse(_, _)
sort_reverse(ctrls, idx) ==
    IF idx = <<>> THEN <<>>
    ELSE LET sorted == sort_reverse(ctrls, SubSeq(idx, 1, Len(idx) - 1))
             x == idx[Len(idx)]
             Before(i) == ~key_less(ctrls[i], ctrls[x])
             After(i) == key_less(ctrls[i], ctrls[x])
         IN  SelectSeq(sorted, Before) \o <<x>> \o SelectSeq(sorted, After)

\* faulty variant: one list of all eligible controls, sorted by the key
write_order_single_list(ctrls, typed_ok, win_rect) ==
    LET cands == filter_candidates(ctrls, candidates_of(ctrls, typed_ok))
        Eligible(i) == eligible(ctrls[i], win_rect)
    IN  sort_reverse(ctrls, SelectSeq(cands, Eligible))

\* the controls in the order of the two for loops over try_write
write_order(ctrls, typed_ok, win_rect) ==
    LET cands == filter_candidates(ctrls, candidates_of(ctrls, typed_ok))
    IN  sort_reverse(ctrls, bottom_candidates(ctrls, cands, win_rect))
            \o sort_reverse(ctrls, other_candidates(ctrls, cands, win_rect))

\* ------------------------------------------------------------------- Init
\* the state of the orchestrator after VoiceCodeApp.__init__ and run
AppInit ==
    /\ state = "IDLE"
    /\ queue = <<>>
    /\ running = TRUE
    /\ speech \in BOOLEAN
    /\ trayStatus = "idle"
    /\ trayAlive = TRUE
    /\ dispPc = "waiting"
    /\ recording = FALSE
    /\ frames = 0
    /\ clipOpen = FALSE
    /\ hkActive = FALSE
    /\ hkKeys = 0
    /\ listening = TRUE
    /\ lisPc = "idle"
    /\ lisSess = 0
    /\ timers = [t \in TimerIds |-> NoTimer]
    /\ resetPc = "idle"
    /\ workers = {}
    /\ nSess = 0
    /\ nAttempts = 0
    /\ cancelled = {}
    /\ resetSeen = FALSE
    /\ recogCalls = [s \in Sessions |-> 0]
    /\ sendCalls = [s \in Sessions |-> 0]
    /\ posts = [a \in Attempts |-> 0]
    /\ failed = FALSE
    /\ last = [op |-> "init", sess |-> 0, notes |-> 0]

\* a thread `send' that has not started
NoSend == [pc |-> "off", cli |-> 0, ok |-> FALSE, posted |-> <<>>]

\* a thread _record_loop that has not started, or has ended
NoLoop == [pc |-> "off", stream |-> 0]

\* a thread that is not inside stop_recording; since: the number of
\* recordings started when the call cleared _recording
NoStop == [pc |-> "idle", since |-> 0]

\* AudioRecorder.__init__; a chunk of _frames is written as the number of
\* the stream it was read from, streams and threads are numbered by the
\* start_recording that made them
AudioRecorder ==
    [recording |-> FALSE, frames |-> <<>>, stream |-> 0, thread |-> 0,
     started |-> 0, closed |-> {},
     loops |-> [r \in 1..MaxStarts |-> NoLoop],
     stops |-> [c \in 1..MaxStopCallers |-> NoStop],
     returned |-> <<>>]

\* no thread `send' started yet; the application holds the engine built by
\* __init__ and a new recorder
ThreadsInit ==
    /\ appCli = 1
    /\ lastErrors = [e \in 1..MaxEngines |-> ""]
    /\ sends = [t \in 1..MaxSendThreads |-> NoSend]
    /\ recorder = AudioRecorder

Init ==
    /\ AppInit
    /\ config = [window_title_keyword |-> <<>>, send_key |-> SK_ENTER]
    /\ cli = build_cli(config)
    /\ pywinauto = TRUE
    /\ polled = <<>>
    /\ ThreadsInit

\* ------------------------------------------------- hotkey listener thread
\* faulty variant: _on_activate without the state test
activate_always_accepted == TRUE

\* _on_activate, the section under _lock: the idempotency check
activate_accepted == state = "IDLE"

\* faulty variant: _on_deactivate without the state test
deactivate_always_accepted == TRUE

\* _on_deactivate, the section under _lock: the idempotency check
deactivate_accepted == state = "RECORDING"

\* _on_activate up to the release of _lock (listener thread)
on_activate_lock ==
    IF activate_accepted
    THEN /\ state' = "RECORDING"
         /\ nSess' = nSess + 1
         /\ lisPc' = "act_mid"
         /\ lisSess' = nSess + 1
         /\ Step("activate", nSess + 1, 0)
    ELSE /\ UNCHANGED <<state, nSess, lisPc, lisSess>>
         /\ Step("activate_noop", 0, 0)

\* HotkeyListener._on_press: HotKey.press adds the key to the chord state and
\* calls _handle_activate when the chord is complete; _handle_activate sets
\* _active, starts the idle Timer and calls _on_activate
on_press ==
    /\ listening /\ lisPc = "idle"
    /\ hkKeys < ChordSize
    /\ hkKeys' = hkKeys + 1
    /\ IF hkKeys + 1 = ChordSize /\ ~hkActive
       THEN /\ FreeTimers(cancel_timer(timers)) # {}
            /\ activate_accepted => nSess < MaxSessions
            /\ hkActive' = TRUE
            /\ timers' = start_timer(timers)
            /\ on_activate_lock
       ELSE /\ UNCHANGED <<hkActive, timers, state, nSess, lisPc, lisSess>>
            /\ Step("other", 0, 0)
    /\ UNCHANGED <<queue, running, speech, trayStatus, trayAlive, dispPc, rec,
                   listening, resetPc, workers, nAttempts, cancelled,
                   resetSeen, recogCalls, sendCalls, posts, failed>>
    /\ UNCHANGED engine

\* _on_activate after the release of _lock: tray status, start_recording
on_activate_body ==
    /\ lisPc = "act_mid"
    /\ trayStatus' = "recording"
    /\ start_recording
    /\ lisPc' = "idle"
    /\ lisSess' = 0
    /\ Step("activate_done", lisSess, 0)
    /\ UNCHANGED <<state, queue, running, speech, trayAlive, dispPc, hkActive,
                   hkKeys, listening, timers, resetPc, workers, ghost>>
    /\ UNCHANGED engine

\* HotkeyListener._on_release: HotKey.release removes the key; when the chord
\* state is empty and the listener is active, _deactivate clears _active,
\* cancels the Timer and calls _on_deactivate (here up to the release of _lock)
on_release ==
    /\ listening /\ lisPc = "idle"
    /\ hkKeys > 0
    /\ hkKeys' = hkKeys - 1
    /\ IF hkActive /\ hkKeys - 1 = 0
       THEN /\ hkActive' = FALSE
            /\ timers' = cancel_timer(timers)
            /\ IF deactivate_accepted
               THEN /\ state' = "RECOGNIZING"
                    /\ lisPc' = "deact_mid"
                    /\ lisSess' = nSess
                    /\ failed' = FALSE
                    /\ Step("deactivate", nSess, 0)
               ELSE /\ UNCHANGED <<state, lisPc, lisSess, failed>>
                    /\ Step("deactivate_noop", 0, 0)
       ELSE /\ UNCHANGED <<hkActive, timers, state, lisPc, lisSess, failed>>
            /\ Step("other", 0, 0)
    /\ UNCHANGED <<queue, running, speech, trayStatus, trayAlive, dispPc, rec,
                   listening, resetPc, workers, nSess, nAttempts, cancelled,
                   resetSeen, recogCalls, sendCalls, posts>>
    /\ UNCHANGED engine

\* _on_deactivate after the release of _lock: tray status, stop_recording,
\* enqueue recording_stopped
on_deactivate_body ==
    /\ lisPc = "deact_mid"
    /\ trayStatus' = "recognizing"
    /\ enqueue(Event(EVENT_RECORDING_STOPPED, lisSess, stop_recording_result,
                     <<>>))
    /\ stop_recording
    /\ lisPc' = "idle"
    /\ lisSess' = 0
    /\ Step("deactivate_done", lisSess, 0)
    /\ UNCHANGED <<state, running, speech, trayAlive, dispPc, hkActive, hkKeys,
                   listening, timers, resetPc, workers, ghost>>
    /\ UNCHANGED engine

\* --------------------------------------------------- idle-timeout Timer
\* the Timer fires and _deactivate tests _active
timer_fire(t) ==
    /\ timers[t].pc = "armed"
    /\ timers' = [timers EXCEPT ![t] =
                     IF hkActive THEN [pc |-> "checked", sess |-> 0]
                     ELSE NoTimer]
    /\ Step("other", 0, 0)
    /\ UNCHANGED <<orch, rec, hkActive, hkKeys, listening, lisPc, lisSess,
                   resetPc, workers, ghost>>
    /\ UNCHANGED engine

\* faulty variant: the Timer thread's _on_deactivate writes the state without
\* testing it under _lock
timer_deactivate_unchecked(t) ==
    /\ timers[t].pc = "checked"
    /\ hkActive' = FALSE
    /\ state' = "RECOGNIZING"
    /\ timers' = [cancel_timer(timers) EXCEPT ![t] =
                     [pc |-> "deact_mid", sess |-> nSess]]
    /\ failed' = FALSE
    /\ Step("deactivate", nSess, 0)
    /\ UNCHANGED <<queue, running, speech, trayStatus, trayAlive, dispPc, rec,
                   hkKeys, listening, lisPc, lisSess, resetPc, workers, nSess,
                   nAttempts, cancelled, resetSeen, recogCalls, sendCalls,
                   posts>>
    /\ UNCHANGED engine

\* _deactivate on the Timer thread after the test: clear _active, cancel the
\* pending Timer, call _on_deactivate (up to the release of _lock)
timer_deactivate(t) ==
    /\ timers[t].pc = "checked"
    /\ hkActive' = FALSE
    /\ IF deactivate_accepted
       THEN /\ state' = "RECOGNIZING"
            /\ timers' = [cancel_timer(timers) EXCEPT ![t] =
                             [pc |-> "deact_mid", sess |-> nSess]]
            /\ failed' = FALSE
            /\ Step("deactivate", nSess, 0)
       ELSE /\ timers' = [cancel_timer(timers) EXCEPT ![t] = NoTimer]
            /\ UNCHANGED <<state, failed>>
            /\ Step("deactivate_noop", 0, 0)
    /\ UNCHANGED <<queue, running, speech, trayStatus, trayAlive, dispPc, rec,
                   hkKeys, listening, lisPc, lisSess, resetPc, workers, nSess,
                   nAttempts, cancelled, resetSeen, recogCalls, sendCalls,
                   posts>>
    /\ UNCHANGED engine

\* _on_deactivate on the Timer thread after the release of _lock
timer_deactivate_body(t) ==
    /\ timers[t].pc = "deact_mid"
    /\ trayStatus' = "recognizing"
    /\ enqueue(Event(EVENT_RECORDING_STOPPED, timers[t].sess,
                     stop_recording_result, <<>>))
    /\ stop_recording
    /\ timers' = [timers EXCEPT ![t] = NoTimer]
    /\ Step("deactivate_done", timers[t].sess, 0)
    /\ UNCHANGED <<state, running, speech, trayAlive, dispPc, hkActive, hkKeys,
                   listening, lisPc, lisSess, resetPc, workers, ghost>>
    /\ UNCHANGED engine

\* ------------------------------------------------------- recorder thread
\* _record_loop appends one chunk
record_frame ==
    /\ recording /\ frames < MaxFrames
    /\ frames' = frames + 1
    /\ Step("other", 0, 0)
    /\ UNCHANGED <<orch, recording, clipOpen, hk, resetPc, workers, ghost>>
    /\ UNCHANGED engine

\* _record_loop reaches max_duration and clears _recording
max_duration ==
    /\ recording
    /\ recording' = FALSE
    /\ Step("other", 0, 0)
    /\ UNCHANGED <<orch, frames, clipOpen, hk, resetPc, workers, ghost>>
    /\ UNCHANGED engine

\* ------------------------------------------------------------ tray thread
\* _reset up to the release of _lock
reset_lock ==
    /\ trayAlive /\ resetPc = "idle"
    /\ state' = "IDLE"
    /\ resetPc' = "mid"
    /\ cancelled' = 1..nSess
    /\ resetSeen' = TRUE
    /\ Step("reset", 0, 0)
    /\ UNCHANGED <<queue, running, speech, trayStatus, trayAlive, dispPc, rec,
                   hk, workers, nSess, nAttempts, recogCalls, sendCalls, posts,
                   failed>>
    /\ UNCHANGED engine

\* _reset after the release of _lock: tray status, stop_recording (the
\* returned audio is dropped)
reset_body ==
    /\ resetPc = "mid"
    /\ trayStatus' = "idle"
    /\ stop_recording
    /\ resetPc' = "idle"
    /\ Step("reset_done", 0, 0)
    /\ UNCHANGED <<state, queue, running, speech, trayAlive, dispPc, hk,
                   workers, ghost>>
    /\ UNCHANGED engine

\* _quit: clear _running, HotkeyListener.stop, TrayIcon.stop
quit ==
    /\ trayAlive /\ resetPc = "idle"
    /\ running' = FALSE
    /\ listening' = FALSE
    /\ timers' = cancel_timer(timers)
    /\ hkActive' = FALSE
    /\ trayAlive' = FALSE
    /\ Step("quit", 0, 0)
    /\ UNCHANGED <<state, queue, speech, trayStatus, dispPc, rec, hkKeys,
                   lisPc, lisSess, resetPc, workers, ghost>>
    /\ UNCHANGED engine

\* _open_settings (settings thread): reload the configuration,
\* HotkeyListener.update_hotkey, rebuild the speech client and the engine
open_settings ==
    /\ trayAlive
    /\ hkActive' = FALSE
    /\ hkKeys' = 0
    /\ speech' \in BOOLEAN
    /\ Step("other", 0, 0)
    /\ UNCHANGED <<state, queue, running, trayStatus, trayAlive, dispPc, rec,
                   listening, lisPc, lisSess, timers, resetPc, workers, ghost>>
    /\ UNCHANGED engine

\* ---------------------------------------------------------- worker threads
Worker(id, kind, sess, text) ==
    [id |-> id, kind |-> kind, sess |-> sess, text |-> text]

\* faulty variant: the thread `recognize' without its except clause
recognize_events_drops_exception(sess, raised, text) ==
    IF raised
    THEN <<>>
    ELSE <<Event(EVENT_RECOGNITION_RESULT, sess, 0, text)>>

\* events posted by the thread `recognize': the result, or the exception
recognize_events(sess, raised, text) ==
    IF raised
    THEN <<Event(EVENT_RECOGNITION_ERROR, sess, 0, <<>>)>>
    ELSE <<Event(EVENT_RECOGNITION_RESULT, sess, 0, text)>>

\* events posted by the thread `send': send_message returned True ("ok"),
\* returned False ("fail") or raised ("raise")
send_events(sess, message, outcome) ==
    IF outcome = "ok"
    THEN <<Event(EVENT_SEND_COMPLETE, sess, 0, message)>>
    ELSE <<Event(EVENT_SEND_ERROR, sess, 0, <<>>)>>

\* the thread `recognize' ends: speech.recognize returned `text' or raised
recognize_done(w, raised, text) ==
    /\ w \in workers /\ w.kind = "recognize"
    /\ workers' = workers \ {w}
    /\ queue' = queue \o recognize_events(w.sess, raised, text)
    /\ posts' = [posts EXCEPT ![w.id] =
                    @ + Len(recognize_events(w.sess, raised, text))]
    /\ Step("recognize_done", w.sess, 0)
    /\ UNCHANGED <<state, running, speech, trayStatus, trayAlive, dispPc, rec,
                   hk, resetPc, nSess, nAttempts, cancelled, resetSeen,
                   recogCalls, sendCalls, failed>>
    /\ UNCHANGED engine

\* the thread `send' ends: send_message returned or raised
send_done(w, outcome) ==
    /\ w \in workers /\ w.kind = "send"
    /\ workers' = workers \ {w}
    /\ queue' = queue \o send_events(w.sess, w.text, outcome)
    /\ posts' = [posts EXCEPT ![w.id] =
                    @ + Len(send_events(w.sess, w.text, outcome))]
    /\ Step("send_done", w.sess, 0)
    /\ UNCHANGED <<state, running, speech, trayStatus, trayAlive, dispPc, rec,
                   hk, resetPc, nSess, nAttempts, cancelled, resetSeen,
                   recogCalls, sendCalls, failed>>
    /\ UNCHANGED engine

\* ----------------------------------------------------------- dispatch loop
\* faulty variant: _handle_recording_stopped without the empty-audio test
handle_recording_stopped_no_empty_check(ev) ==
    IF ~speech
    THEN /\ to_idle
         /\ Step("stopped_unconfigured", ev.sess, 1)
         /\ UNCHANGED <<workers, nAttempts, recogCalls, sendCalls, failed>>
    ELSE /\ nAttempts < 2 * MaxSessions
         /\ workers' = workers \cup
                {Worker(nAttempts + 1, "recognize", ev.sess, <<>>)}
         /\ nAttempts' = nAttempts + 1
         /\ recogCalls' = [recogCalls EXCEPT ![ev.sess] = @ + 1]
         /\ Step("stopped_recognize", ev.sess, 0)
         /\ UNCHANGED <<state, trayStatus, sendCalls, failed>>

\* _handle_recording_stopped
handle_recording_stopped(ev) ==
    IF ev.audio = 0
    THEN /\ to_idle
         /\ Step("stopped_empty", ev.sess, 0)
         /\ UNCHANGED <<workers, nAttempts, recogCalls, sendCalls, failed>>
    ELSE IF ~speech
    THEN /\ to_idle
         /\ Step("stopped_unconfigured", ev.sess, 1)
         /\ UNCHANGED <<workers, nAttempts, recogCalls, sendCalls, failed>>
    ELSE /\ nAttempts < 2 * MaxSessions
         /\ workers' = workers \cup
                {Worker(nAttempts + 1, "recognize", ev.sess, <<>>)}
         /\ nAttempts' = nAttempts + 1
         /\ recogCalls' = [recogCalls EXCEPT ![ev.sess] = @ + 1]
         /\ Step("stopped_recognize", ev.sess, 0)
         /\ UNCHANGED <<state, trayStatus, sendCalls, failed>>

\* _handle_recognition_result
handle_recognition_result(ev) ==
    LET message == strip(ev.text) IN
    IF message = <<>>
    THEN /\ to_idle
         /\ failed' = TRUE
         /\ Step("result_empty", ev.sess, 0)
         /\ UNCHANGED <<workers, nAttempts, recogCalls, sendCalls>>
    ELSE /\ nAttempts < 2 * MaxSessions
         /\ state' = "SENDING"
         /\ workers' = workers \cup
                {Worker(nAttempts + 1, "send", ev.sess, message)}
         /\ nAttempts' = nAttempts + 1
         /\ sendCalls' = [sendCalls EXCEPT ![ev.sess] = @ + 1]
         /\ Step("result_send", ev.sess, 0)
         /\ UNCHANGED <<trayStatus, recogCalls, failed>>

\* _handle_recognition_error
handle_recognition_error(ev) ==
    /\ to_idle
    /\ failed' = TRUE
    /\ Step("recognition_error", ev.sess, 1)
    /\ UNCHANGED <<workers, nAttempts, recogCalls, sendCalls>>

\* _handle_send_complete
handle_send_complete(ev) ==
    /\ to_idle
    /\ Step("send_complete", ev.sess, 0)
    /\ UNCHANGED <<workers, nAttempts, recogCalls, sendCalls, failed>>

\* _handle_send_error
handle_send_error(ev) ==
    /\ to_idle
    /\ failed' = TRUE
    /\ Step("send_error", ev.sess, 1)
    /\ UNCHANGED <<workers, nAttempts, recogCalls, sendCalls>>

\* faulty variant: _poll_queue without the test of _running
poll_start_ignores_running ==
    /\ dispPc = "waiting"
    /\ dispPc' = "polling"
    /\ Step("other", 0, 0)
    /\ UNCHANGED <<state, queue, running, speech, trayStatus, trayAlive, rec,
                   hk, resetPc, workers, ghost>>
    /\ UNCHANGED engine

\* the poll Timer fires: _poll_queue tests _running
poll_start ==
    /\ dispPc = "waiting"
    /\ dispPc' = IF running THEN "polling" ELSE "stopped"
    /\ Step("other", 0, 0)
    /\ UNCHANGED <<state, queue, running, speech, trayStatus, trayAlive, rec,
                   hk, resetPc, workers, ghost>>
    /\ UNCHANGED engine

\* faulty variant: the loop of _poll_queue taking the newest event first
poll_queue_takes_last ==
    /\ dispPc = "polling"
    /\ queue # <<>>
    /\ queue' = SubSeq(queue, 1, Len(queue) - 1)
    /\ LET ev == queue[Len(queue)] IN
       CASE ev.kind = EVENT_RECORDING_STOPPED -> handle_recording_stopped(ev)
         [] ev.kind = EVENT_RECOGNITION_RESULT -> handle_recognition_result(ev)
         [] ev.kind = EVENT_RECOGNITION_ERROR -> handle_recognition_error(ev)
         [] ev.kind = EVENT_SEND_COMPLETE -> handle_send_complete(ev)
         [] ev.kind = EVENT_SEND_ERROR -> handle_send_error(ev)
    /\ UNCHANGED <<running, speech, trayAlive, dispPc, rec, hk, resetPc, nSess,
                   cancelled, resetSeen, posts>>
    /\ UNCHANGED engine

\* one iteration of the loop of _poll_queue: take the head event, dispatch it
poll_queue ==
    /\ dispPc = "polling"
    /\ queue # <<>>
    /\ queue' = Tail(queue)
    /\ LET ev == Head(queue) IN
       CASE ev.kind = EVENT_RECORDING_STOPPED -> handle_recording_stopped(ev)
         [] ev.kind = EVENT_RECOGNITION_RESULT -> handle_recognition_result(ev)
         [] ev.kind = EVENT_RECOGNITION_ERROR -> handle_recognition_error(ev)
         [] ev.kind = EVENT_SEND_COMPLETE -> handle_send_complete(ev)
         [] ev.kind = EVENT_SEND_ERROR -> handle_send_error(ev)
    /\ UNCHANGED <<running, speech, trayAlive, dispPc, rec, hk, resetPc, nSess,
                   cancelled, resetSeen, posts>>
    /\ UNCHANGED engine

\* the queue is empty: _poll_queue ends with _schedule_poll
schedule_poll ==
    /\ dispPc = "polling"
    /\ queue = <<>>
    /\ dispPc' = IF running THEN "waiting" ELSE "stopped"
    /\ Step("other", 0, 0)
    /\ UNCHANGED <<state, queue, running, speech, trayStatus, trayAlive, rec,
                   hk, resetPc, workers, ghost>>
    /\ UNCHANGED engine

\* ------------------------------------------------------------------- Next
Next ==
    \/ on_press
    \/ on_activate_body
    \/ on_release
    \/ on_deactivate_body
    \/ \E t \in TimerIds : timer_fire(t)
    \/ \E t \in TimerIds : timer_deactivate(t)
    \/ \E t \in TimerIds : timer_deactivate_body(t)
    \/ record_frame
    \/ max_duration
    \/ reset_lock
    \/ reset_body
    \/ quit
    \/ open_settings
    \/ \E w \in workers, raised \in BOOLEAN, text \in Texts :
           recognize_done(w, raised, text)
    \/ \E w \in workers, outcome \in {"ok", "fail", "raise"} :
           send_done(w, outcome)
    \/ poll_start
    \/ poll_queue
    \/ schedule_poll

Spec == Init /\ [][Next]_vars

\* ====================================================== injection engine
\* one entry of the frame's log `acts' of the calls made on the desktop by
\* the latest try_write and by _submit_message: the operation, the control
\* it was made on (0: none), and how (or with which keys); `tried' lists the
\* controls the earlier calls of try_write gave up
Act(op, ctrl, via) == [op |-> op, ctrl |-> ctrl, via |-> via]

\* send_message returns: the default last_error of a failure that set none;
\* of the frame the result, the log and the count of candidates are kept
send_return(c, ok) ==
    [c EXCEPT !.last_error = IF ~ok /\ @ = "" THEN ERR_CANNOT_LOCATE ELSE @,
              !.f = [NoFrame EXCEPT !.message = c.f.message,
                                    !.enumerated = c.f.enumerated,
                                    !.total = c.f.total,
                                    !.tried = c.f.tried,
                                    !.acts = c.f.acts,
                                    !.delivered = c.f.delivered,
                                    !.last_hwnd = c.f.last_hwnd,
                                    !.ret = IF ok THEN "ok" ELSE "fail"]]

\* faulty variant: _send_to_opencode_desktop_input without the test of the
\* backend before the window is searched
send_message_without_backend_test(text) ==
    /\ cli.f.pc = "idle"
    /\ LET message == strip(text)
           frame == [NoFrame EXCEPT !.message = message,
                                    !.prev = (cli.last_error # "")]
       IN  cli' =
               IF message = <<>>
               THEN send_return([cli EXCEPT !.last_error = ERR_EMPTY_TEXT,
                                            !.f = frame], FALSE)
               ELSE [cli EXCEPT !.last_error = "",
                                !.f = [frame EXCEPT !.pc = "find"]]
    /\ UNCHANGED <<app, threads, config, pywinauto, polled>>

\* faulty variant: _send_to_opencode_desktop_input without the reset of
\* last_error
send_message_keeps_error(text) ==
    /\ cli.f.pc = "idle"
    /\ LET message == strip(text)
           frame == [NoFrame EXCEPT !.message = message,
                                    !.prev = (cli.last_error # "")]
       IN  cli' =
               IF message = <<>>
               THEN send_return([cli EXCEPT !.last_error = ERR_EMPTY_TEXT,
                                            !.f = frame], FALSE)
               ELSE IF ~pywinauto
               THEN send_return([cli EXCEPT !.last_error = ERR_NO_PYWINAUTO,
                                            !.f = frame], FALSE)
               ELSE [cli EXCEPT !.f = [frame EXCEPT !.pc = "find"]]
    /\ UNCHANGED <<app, threads, config, pywinauto, polled>>

\* send_message up to the call of _find_opencode_window_uia: the strip, the
\* empty text, the reset of last_error, the test of the backend
send_message(text) ==
    /\ cli.f.pc = "idle"
    /\ LET message == strip(text)
           frame == [NoFrame EXCEPT !.message = message,
                                    !.prev = (cli.last_error # "")]
       IN  cli' =
               IF message = <<>>
               THEN send_return([cli EXCEPT !.last_error = ERR_EMPTY_TEXT,
                                            !.f = frame], FALSE)
               ELSE IF ~pywinauto
               THEN send_return([cli EXCEPT !.last_error = ERR_NO_PYWINAUTO,
                                            !.f = frame], FALSE)
               ELSE [cli EXCEPT !.last_error = "",
                                !.f = [frame EXCEPT !.pc = "find"]]
    /\ UNCHANGED <<app, threads, config, pywinauto, polled>>

\* faulty variant: the loop body without the sleep (no time passes)
find_poll_without_sleep(d) ==
    /\ cli.f.pc = "find"
    /\ cli.f.clock < DEADLINE
    /\ polled' = d
    /\ LET keyword == cli.window_title_keyword
           hwnd == find_hwnd_candidate(keyword, d)
           wins == title_re_wins(keyword, d)
           seen == [cli EXCEPT !.f.prev = FALSE,
                               !.f.last_hwnd = @ \/ hwnd # 0]
       IN  cli' =
               IF hwnd # 0 /\ d[hwnd].uia
               THEN [seen EXCEPT !.f.win = <<d[hwnd]>>, !.f.pc = "focus"]
               ELSE IF wins # {}
               THEN [seen EXCEPT !.f.win = <<d[best_of(wins, d)]>>,
                                 !.f.pc = "focus"]
               ELSE seen
    /\ UNCHANGED <<app, threads, config, pywinauto>>

\* one iteration of the loop of _find_opencode_window_uia on the desktop d:
\* the handle found by EnumWindows bound by UIA, else the UIA title match,
\* else the sleep
find_poll(d) ==
    /\ cli.f.pc = "find"
    /\ cli.f.clock < DEADLINE
    /\ polled' = d
    /\ LET keyword == cli.window_title_keyword
           hwnd == find_hwnd_candidate(keyword, d)
           wins == title_re_wins(keyword, d)
           seen == [cli EXCEPT !.f.prev = FALSE,
                               !.f.last_hwnd = @ \/ hwnd # 0]
       IN  cli' =
               IF hwnd # 0 /\ d[hwnd].uia
               THEN [seen EXCEPT !.f.win = <<d[hwnd]>>, !.f.pc = "focus"]
               ELSE IF wins # {}
               THEN [seen EXCEPT !.f.win = <<d[best_of(wins, d)]>>,
                                 !.f.pc = "focus"]
               ELSE [seen EXCEPT !.f.clock =
                         @ + SLEEP + (IF hwnd # 0 THEN EXISTS_TIMEOUT ELSE 0)]
    /\ UNCHANGED <<app, threads, config, pywinauto>>

\* the deadline has passed: _find_opencode_window_uia returns None and
\* send_message fails
find_timeout ==
    /\ cli.f.pc = "find"
    /\ ~(cli.f.clock < DEADLINE)
    /\ cli' = send_return(
           [cli EXCEPT !.last_error = IF cli.f.last_hwnd THEN ERR_HWND_NO_UIA
                                      ELSE ERR_NOT_FOUND], FALSE)
    /\ polled' = <<>>
    /\ UNCHANGED <<app, threads, config, pywinauto>>

\* faulty variant: an exception of win.restore() or win.set_focus() ends the
\* call
focus_window_aborts(restore_ok, focus_ok, rect_ok) ==
    /\ cli.f.pc = "focus"
    /\ cli' =
           IF restore_ok /\ focus_ok
           THEN [cli EXCEPT
                    !.f.win_restore = "ok",
                    !.f.win_focus = "ok",
                    !.f.win_rect = IF rect_ok THEN <<WIN_RECT>> ELSE <<>>,
                    !.f.win = <<>>,
                    !.f.clock = 0,
                    !.f.last_hwnd = FALSE,
                    !.f.pc = "enumerate"]
           ELSE send_return(cli, FALSE)
    /\ polled' = <<>>
    /\ UNCHANGED <<app, threads, config, pywinauto>>

\* win.restore(), win.set_focus() and win.rectangle(), each of which may
\* raise; the desktop and the window are forgotten from here on
focus_window(restore_ok, focus_ok, rect_ok) ==
    /\ cli.f.pc = "focus"
    /\ cli' = [cli EXCEPT
           !.f.win_restore = IF restore_ok THEN "ok" ELSE "raised",
           !.f.win_focus = IF focus_ok THEN "ok" ELSE "raised",
           !.f.win_rect = IF rect_ok THEN <<WIN_RECT>> ELSE <<>>,
           !.f.win = <<>>,
           !.f.clock = 0,
           !.f.last_hwnd = FALSE,
           !.f.pc = "enumerate"]
    /\ polled' = <<>>
    /\ UNCHANGED <<app, threads, config, pywinauto>>


\* the enumeration of the controls of the window (the typed queries, then
\* all descendants if they gave nothing), the filter, the partition and the
\* sort; typed_ok and all_ok tell whether win.descendants raised
enumerate(ctrls, typed_ok, all_ok) ==
    /\ cli.f.pc = "enumerate"
    /\ LET typed == IF typed_ok THEN typed_candidates(ctrls) ELSE <<>>
           seen == [cli EXCEPT !.f.ctrls = ctrls,
                               !.f.win_restore = "",
                               !.f.win_focus = "",
                               !.f.enumerated = TRUE]
       IN  cli' =
               IF typed = <<>> /\ ~all_ok
               THEN send_return([seen EXCEPT !.last_error = ERR_ENUMERATE],
                                FALSE)
               ELSE IF candidates_of(ctrls, typed_ok) = <<>>
               THEN send_return([seen EXCEPT !.last_error = ERR_NO_CONTROLS],
                                FALSE)
               ELSE [seen EXCEPT
                        !.f.total = Len(candidates_of(ctrls, typed_ok)),
                        !.f.order = write_order(ctrls, typed_ok, cli.f.win_rect),
                        !.f.idx = 1,
                        !.f.pc = "write"]
    /\ UNCHANGED <<app, threads, config, pywinauto, polled>>

\* the modifier a character of a key string stands for, "" if none
MODIFIERS(c) ==
    CASE c = "+" -> "VK_SHIFT"
      [] c = "^" -> "VK_CONTROL"
      [] c = "%" -> "VK_MENU"
      [] OTHER -> ""

\* a key pressed or released, as opposed to a character typed, written as
\* key strings write it
VirtualKey(key, edge) == "{" \o key \o " " \o edge \o "}"

\* the keys that type_keys(message, with_spaces=True) and
\* send_keys(message, with_spaces=True) send for the key string s while the
\* modifiers `held' are down: + ^ % hold a modifier for the next key, ~ is
\* Enter, tabs and newlines are skipped, any other character is typed (the
\* texts of the model hold no brace and no parenthesis)
RECURSIVE parse_keys(_, _)
parse_keys(s, held) ==
    IF s = <<>>
    THEN [i \in 1..Len(held) |-> VirtualKey(held[Len(held) + 1 - i], "up")]
    ELSE LET c == Head(s)
             release ==
                 [i \in 1..Len(held) |->
                     VirtualKey(held[Len(held) + 1 - i], "up")]
         IN  IF MODIFIERS(c) # ""
             THEN <<VirtualKey(MODIFIERS(c), "down")>>
                      \o parse_keys(Tail(s), Append(held, MODIFIERS(c)))
             ELSE IF c \in {"\t", "\n"}
             THEN parse_keys(Tail(s), held)
             ELSE IF c = "~"
             THEN <<VirtualKey("VK_RETURN", "press")>> \o release
                      \o parse_keys(Tail(s), <<>>)
             ELSE <<c>> \o release \o parse_keys(Tail(s), <<>>)

\* faulty variant: try_write gives the control up when the clearing keys
\* raised
write_acts_stops_at_clear(c, message, focus_ok, clear, type) ==
    IF ~focus_ok THEN <<Act("focus_raised", c, "")>>
    ELSE IF clear = "raised"
    THEN <<Act("focus", c, ""), Act("clear_raised", c, "")>>
    ELSE <<Act("focus", c, ""), Act("clear", c, clear)>>
            \o (IF type = "raised" THEN <<Act("type_raised", c, "")>>
                ELSE <<Act("type", c, type)>>)

\* the calls try_write makes on the control c: set_focus, the clearing keys
\* by the control's type_keys or else by send_keys, the message likewise
write_acts(c, message, focus_ok, clear, type) ==
    IF ~focus_ok THEN <<Act("focus_raised", c, "")>>
    ELSE <<Act("focus", c, "")>>
            \o (IF clear = "raised" THEN <<Act("clear_raised", c, "")>>
                ELSE <<Act("clear", c, clear)>>)
            \o (IF type = "raised" THEN <<Act("type_raised", c, "")>>
                ELSE <<Act("type", c, type)>>)

\* faulty variant: the loops go on after a try_write that returned True
try_write_goes_on(focus_ok, clear, type) ==
    /\ cli.f.pc = "write"
    /\ cli.f.idx <= Len(cli.f.order)
    /\ LET c == cli.f.order[cli.f.idx]
           done == [cli EXCEPT !.f.acts =
                       write_acts(c, cli.f.message, focus_ok, clear, type)]
       IN  cli' =
               IF focus_ok /\ type # "raised" /\ cli.f.idx = Len(cli.f.order)
               THEN [done EXCEPT !.f.pc = "submit",
                                 !.f.delivered = parse_keys(cli.f.message, <<>>)]
               ELSE [done EXCEPT !.f.idx = @ + 1,
                                 !.f.tried = Append(@, c)]
    /\ UNCHANGED <<app, threads, config, pywinauto, polled>>

\* try_write on the next control of the two lists; on success the search
\* ends and _submit_message follows
try_write(focus_ok, clear, type) ==
    /\ cli.f.pc = "write"
    /\ cli.f.idx <= Len(cli.f.order)
    /\ LET c == cli.f.order[cli.f.idx]
           done == [cli EXCEPT !.f.acts =
                       write_acts(c, cli.f.message, focus_ok, clear, type)]
       IN  cli' =
               IF focus_ok /\ type # "raised"
               THEN [done EXCEPT !.f.pc = "submit",
                                 !.f.delivered = parse_keys(cli.f.message, <<>>)]
               ELSE [done EXCEPT !.f.idx = @ + 1,
                                 !.f.tried = Append(@, c)]
    /\ UNCHANGED <<app, threads, config, pywinauto, polled>>

\* faulty variant: the search is given up after the first candidate failed
write_exhausted_after_first ==
    /\ cli.f.pc = "write"
    /\ cli.f.idx > 1 \/ cli.f.order = <<>>
    /\ cli' = send_return([cli EXCEPT !.last_error = ERR_NO_WRITABLE], FALSE)
    /\ UNCHANGED <<app, threads, config, pywinauto, polled>>

\* both for loops ended without a successful try_write
write_exhausted ==
    /\ cli.f.pc = "write"
    /\ cli.f.idx > Len(cli.f.order)
    /\ cli' = send_return([cli EXCEPT !.last_error = ERR_NO_WRITABLE], FALSE)
    /\ UNCHANGED <<app, threads, config, pywinauto, polled>>

\* faulty variant: a send key that raised is reported as no writable control
submit_message_reports_no_writable(key_ok) ==
    /\ cli.f.pc = "submit"
    /\ LET keys == IF cli.send_key = SK_CTRL_ENTER THEN "^{ENTER}"
                   ELSE "{ENTER}"
       IN  cli' =
               IF key_ok
               THEN send_return(
                        [cli EXCEPT !.f.acts = Append(@, Act("submit", 0, keys))],
                        TRUE)
               ELSE send_return(
                        [cli EXCEPT !.last_error = ERR_NO_WRITABLE,
                                    !.f.acts =
                                        Append(@, Act("submit_raised", 0, keys))],
                        FALSE)
    /\ UNCHANGED <<app, threads, config, pywinauto, polled>>

\* faulty variant: _submit_message without the test of the send key
submit_message_plain_enter(key_ok) ==
    /\ cli.f.pc = "submit"
    /\ cli' =
           IF key_ok
           THEN send_return(
                    [cli EXCEPT !.f.acts = Append(@, Act("submit", 0, "{ENTER}"))],
                    TRUE)
           ELSE send_return(
                    [cli EXCEPT !.last_error = ERR_SUBMIT,
                                !.f.acts =
                                    Append(@, Act("submit_raised", 0, "{ENTER}"))],
                    FALSE)
    /\ UNCHANGED <<app, threads, config, pywinauto, polled>>

\* _submit_message: the send key, which may raise
submit_message(key_ok) ==
    /\ cli.f.pc = "submit"
    /\ LET keys == IF cli.send_key = SK_CTRL_ENTER THEN "^{ENTER}"
                   ELSE "{ENTER}"
       IN  cli' =
               IF key_ok
               THEN send_return(
                        [cli EXCEPT !.f.acts = Append(@, Act("submit", 0, keys))],
                        TRUE)
               ELSE send_return(
                        [cli EXCEPT !.last_error = ERR_SUBMIT,
                                    !.f.acts =
                                        Append(@, Act("submit_raised", 0, keys))],
                        FALSE)
    /\ UNCHANGED <<app, threads, config, pywinauto, polled>>

\* _open_settings between two calls: the configuration is loaded again and
\* the engine is built anew
rebuild_cli(cfg) ==
    /\ cli.f.pc = "idle"
    /\ config' = cfg
    /\ cli' = build_cli(cfg)
    /\ UNCHANGED <<app, threads, pywinauto, polled>>

EngineInit ==
    /\ AppInit
    /\ speech = TRUE
    /\ config \in Configs
    /\ cli = build_cli(config)
    /\ pywinauto \in BOOLEAN
    /\ polled = <<>>
    /\ ThreadsInit

EngineNext ==
    \/ \E text \in Texts : send_message(text)
    \/ \E d \in Desktops : find_poll(d)
    \/ find_timeout
    \/ \E restore_ok \in BOOLEAN, focus_ok \in BOOLEAN, rect_ok \in BOOLEAN :
           focus_window(restore_ok, focus_ok, rect_ok)
    \/ \E ctrls \in ControlLists, typed_ok \in BOOLEAN, all_ok \in BOOLEAN :
           enumerate(ctrls, typed_ok, all_ok)
    \/ \E focus_ok \in BOOLEAN, clear \in {"ctrl", "global", "raised"},
          type \in {"ctrl", "global", "raised"} :
           try_write(focus_ok, clear, type)
    \/ write_exhausted
    \/ \E key_ok \in BOOLEAN : submit_message(key_ok)
    \/ \E cfg \in Configs : rebuild_cli(cfg)

\* the engine alone: calls of send_message, one after the other, on the
\* engine the application built
EngineSpec == EngineInit /\ [][EngineNext]_vars

\* the thread inside _find_opencode_window_uia keeps running
EngineFairness ==
    /\ WF_vars(\E d \in Desktops : find_poll(d))
    /\ WF_vars(find_timeout)

FairEngineSpec == EngineSpec /\ EngineFairness

\* ======================================================== threads `send'
\* the threads started by _handle_recognition_result, the engines they call
\* and the engine the application holds; the call of send_message is one
\* step from its entry to its return
SEND_FAILED == "send failed"                             \* main.py:192
EXCEPTION_TEXT == "str(exc)"                             \* main.py:196

\* the texts a failed send_message leaves in last_error
FailureTexts == {ERR_NOT_FOUND, ERR_NO_WRITABLE}

Posted(kind, text) == [kind |-> kind, text |-> text]

\* getattr(self._cli, "last_error", "") or the default text
send_error_text ==
    IF lastErrors[appCli] = "" THEN SEND_FAILED ELSE lastErrors[appCli]

\* the thread evaluates self._cli and enters send_message, which clears
\* last_error of that engine
send_call(t) ==
    /\ sends[t].pc = "off"
    /\ sends' = [sends EXCEPT ![t] = [@ EXCEPT !.pc = "called",
                                              !.cli = appCli]]
    /\ lastErrors' = [lastErrors EXCEPT ![appCli] = ""]
    /\ UNCHANGED <<app, appCli, recorder, config, cli, pywinauto, polled>>

\* send_message returns True, or False after it set last_error
send_returned(t, ok, err) ==
    /\ sends[t].pc = "called"
    /\ sends' = [sends EXCEPT ![t] = [@ EXCEPT !.pc = "returned", !.ok = ok]]
    /\ lastErrors' = IF ok THEN lastErrors
                     ELSE [lastErrors EXCEPT ![sends[t].cli] = err]
    /\ UNCHANGED <<app, appCli, recorder, config, cli, pywinauto, polled>>

\* send_message raised: the except clause enqueues send_error
send_raised(t) ==
    /\ sends[t].pc = "called"
    /\ sends' = [sends EXCEPT ![t] =
                    [@ EXCEPT !.pc = "done",
                              !.posted = <<Posted(EVENT_SEND_ERROR,
                                                  EXCEPTION_TEXT)>>]]
    /\ UNCHANGED <<app, appCli, lastErrors, recorder, config, cli, pywinauto, polled>>

\* after the return: enqueue send_complete, or send_error with the text
\* read from self._cli
send_post(t) ==
    /\ sends[t].pc = "returned"
    /\ sends' = [sends EXCEPT ![t] =
                    [@ EXCEPT !.pc = "done",
                              !.posted =
                                  IF sends[t].ok
                                  THEN <<Posted(EVENT_SEND_COMPLETE, "")>>
                                  ELSE <<Posted(EVENT_SEND_ERROR,
                                                send_error_text)>>]]
    /\ UNCHANGED <<app, appCli, lastErrors, recorder, config, cli, pywinauto, polled>>

\* _open_settings: self._cli = self._build_cli()
replace_cli ==
    /\ appCli < MaxEngines
    /\ appCli' = appCli + 1
    /\ UNCHANGED <<app, lastErrors, sends, recorder, config, cli, pywinauto, polled>>

SendThreadNext ==
    \/ \E t \in 1..MaxSendThreads : send_call(t)
    \/ \E t \in 1..MaxSendThreads, ok \in BOOLEAN, err \in FailureTexts :
           send_returned(t, ok, err)
    \/ \E t \in 1..MaxSendThreads : send_raised(t)
    \/ \E t \in 1..MaxSendThreads : send_post(t)
    \/ replace_cli

\* the threads `send' alone, started at any time, with the settings dialog
SendThreadSpec == Init /\ [][SendThreadNext]_vars

\* ============================================== recorder and its threads
\* AudioRecorder with the threads that run in it: the callers of
\* start_recording and stop_recording (the listener thread, the Timer
\* threads and the tray thread) and the threads _record_loop
EngineAndSends == <<appCli, lastErrors, sends, config, cli, pywinauto, polled>>

\* start_recording, all of it under _lock: the recorder it leaves
start_recording_of(r) ==
    IF r.recording THEN r
    ELSE LET n == r.started + 1
         IN  [r EXCEPT !.recording = TRUE,
                       !.frames = <<>>,
                       !.stream = n,
                       !.thread = n,
                       !.started = n,
                       !.loops[n] = [pc |-> "test", stream |-> 0]]

\* a call of start_recording
rec_start ==
    /\ recorder.recording \/ recorder.started < MaxStarts
    /\ recorder' = start_recording_of(recorder)
    /\ UNCHANGED <<app, EngineAndSends>>

\* stop_recording, the section under _lock: return b"" if not recording,
\* else clear _recording
stop_locked_of(r, c) ==
    IF ~r.recording THEN [r EXCEPT !.returned = <<>>]
    ELSE [r EXCEPT !.recording = FALSE,
                   !.stops[c] = [pc |-> "tail", since |-> r.started]]

rec_stop_locked(c) ==
    /\ recorder.stops[c].pc = "idle"
    /\ recorder' = stop_locked_of(recorder, c)
    /\ UNCHANGED <<app, EngineAndSends>>

\* stop_recording after the release of _lock: the join of self._thread
\* (which ends when that thread has ended, or after 2 s when the thread
\* goes on recording), the stream is closed, the chunks are returned
rec_stop_tail(c) ==
    /\ recorder.stops[c].pc = "tail"
    /\ \/ recorder.thread = 0
       \/ recorder.loops[recorder.thread].pc = "off"
       \/ recorder.recording
    /\ recorder' =
           [recorder EXCEPT
               !.closed = IF recorder.stream = 0 THEN @
                          ELSE @ \union {recorder.stream},
               !.stream = 0,
               !.stops[c] = NoStop,
               !.returned = recorder.frames]
    /\ UNCHANGED <<app, EngineAndSends>>

\* _record_loop: the test of _recording under _lock
loop_test(r) ==
    /\ recorder.loops[r].pc = "test"
    /\ recorder' =
           [recorder EXCEPT !.loops[r].pc =
               IF recorder.recording THEN "run" ELSE "off"]
    /\ UNCHANGED <<app, EngineAndSends>>

\* _record_loop: max_duration has passed, _recording is cleared
loop_max_duration(r) ==
    /\ recorder.loops[r].pc = "run"
    /\ recorder' = [recorder EXCEPT !.recording = FALSE,
                                    !.loops[r].pc = "off"]
    /\ UNCHANGED <<app, EngineAndSends>>

\* _record_loop: no stream, sleep and test again; else self._stream.read
\* begins
loop_read(r) ==
    /\ recorder.loops[r].pc = "run"
    /\ recorder' =
           IF recorder.stream = 0
           THEN [recorder EXCEPT !.loops[r].pc = "test"]
           ELSE [recorder EXCEPT !.loops[r] =
                    [pc |-> "read", stream |-> recorder.stream]]
    /\ UNCHANGED <<app, EngineAndSends>>

\* _record_loop: the read returns and the chunk is appended to self._frames;
\* the read of a stream that was closed meanwhile raises and ends the thread
loop_append(r) ==
    /\ recorder.loops[r].pc = "read"
    /\ Len(recorder.frames) < MaxChunks
    /\ recorder' =
           IF recorder.loops[r].stream \in recorder.closed
           THEN [recorder EXCEPT !.loops[r] = NoLoop]
           ELSE [recorder EXCEPT
                    !.frames = Append(@, recorder.loops[r].stream),
                    !.loops[r] = [pc |-> "test", stream |-> 0]]
    /\ UNCHANGED <<app, EngineAndSends>>

RecorderNext ==
    \/ rec_start
    \/ \E c \in 1..MaxStopCallers : rec_stop_locked(c)
    \/ \E c \in 1..MaxStopCallers : rec_stop_tail(c)
    \/ \E r \in 1..MaxStarts : loop_test(r)
    \/ \E r \in 1..MaxStarts : loop_max_duration(r)
    \/ \E r \in 1..MaxStarts : loop_read(r)
    \/ \E r \in 1..MaxStarts : loop_append(r)

\* the recorder alone, called at any time from its callers' threads
RecorderSpec == Init /\ [][RecorderNext]_vars

\* ================================================================= claims
\* the step is one iteration of _poll_queue dispatching an event of `kind'
Dispatch(kind) ==
    /\ dispPc = "polling"
    /\ queue # <<>>
    /\ Head(queue).kind = kind
    /\ queue' = Tail(queue)

DispatchAny == dispPc = "polling" /\ queue # <<>> /\ queue' = Tail(queue)

RecognitionWorkers == {w \in workers : w.kind = "recognize"}
InjectionWorkers == {w \in workers : w.kind = "send"}

\* number of activities in flight: Recorder capturing, recognition workers,
\* injection workers
InFlight ==
    (IF recording THEN 1 ELSE 0) + Cardinality(RecognitionWorkers)
        + Cardinality(InjectionWorkers)

NoCallbackMid ==
    /\ lisPc = "idle"
    /\ \A t \in TimerIds : timers[t].pc \notin {"checked", "deact_mid"}

\* C1 (as claimed): in every run made of hotkey edges, worker completions and
\* polls (even without a manual reset), at most one of Recorder capturing,
\* recognition worker running, injection worker running is active.
C1_OneSessionInFlight == ~resetSeen => InFlight <= 1

\* C2 (as claimed): an event of a session cancelled by a manual reset is
\* discarded: dispatching it changes no state, starts no worker and shows no
\* notification.
C2_StaleEventDiscarded ==
    [][(DispatchAny /\ Head(queue).sess \in cancelled)
          => /\ state' = state
             /\ workers' = workers
             /\ trayStatus' = trayStatus
             /\ last'.notes = 0]_vars

\* C3 (as claimed): every change of the state other than a manual reset
\* forcing Idle is one of the table transitions.
C3_TableTransitionsOnly ==
    [][state' # state =>
          \/ last'.op = "reset" /\ state' = "IDLE"
          \/ state = "IDLE" /\ state' = "RECORDING" /\ last'.op = "activate"
          \/ state = "RECORDING" /\ state' = "RECOGNIZING"
                /\ last'.op = "deactivate"
          \/ state = "RECOGNIZING" /\ state' = "SENDING"
                /\ last'.op = "result_send"
          \/ state = "RECOGNIZING" /\ state' = "IDLE"
                /\ last'.op \in {"stopped_empty", "stopped_unconfigured",
                                 "result_empty", "recognition_error"}
          \/ state = "SENDING" /\ state' = "IDLE"
                /\ last'.op \in {"send_complete", "send_error"}]_vars

\* C4: _on_activate called in a state other than Idle changes neither the
\* state, the Recorder, the tray status nor the queue, and shows no message.
C4_ActivateNoOp ==
    [][(last'.op \in {"activate", "activate_noop"} /\ state # "IDLE")
          => /\ UNCHANGED <<state, recording, frames, trayStatus, queue>>
             /\ lisPc' = lisPc
             /\ nSess' = nSess]_vars

C4_Witness ==
    /\ last.op = "activate_noop"
    /\ state = "SENDING"
    /\ hkActive

\* C5: _on_deactivate called in a state other than Recording changes no
\* state, does not reach stop_recording and enqueues nothing.
C5_DeactivateNoOp ==
    [][(last'.op \in {"deactivate", "deactivate_noop"} /\ state # "RECORDING")
          => /\ UNCHANGED <<state, recording, frames, trayStatus, queue>>
             /\ lisPc' = lisPc
             /\ \A t \in TimerIds :
                    timers'[t].pc = "deact_mid" => timers[t].pc = "deact_mid"]_vars

C5_Witness ==
    /\ last.op = "deactivate_noop"
    /\ state = "RECOGNIZING"
    /\ NoCallbackMid

\* C6 (as claimed): when _reset returns and no other thread is inside a
\* callback, the state is Idle and the Recorder is not recording.
C6_ResetLeavesIdle ==
    (last.op = "reset_done" /\ NoCallbackMid)
        => state = "IDLE" /\ ~recording

TerminalFailure ==
    \/ Dispatch(EVENT_RECORDING_STOPPED) /\ Head(queue).audio = 0
    \/ Dispatch(EVENT_RECORDING_STOPPED) /\ ~speech
    \/ Dispatch(EVENT_RECOGNITION_RESULT) /\ strip(Head(queue).text) = <<>>
    \/ Dispatch(EVENT_RECOGNITION_ERROR)
    \/ Dispatch(EVENT_SEND_ERROR)

\* C8 (as claimed): every terminal failure shows exactly one notification and
\* ends with the state Idle.
C8_FailureNotifiedOnce ==
    [][TerminalFailure => last'.notes = 1 /\ state' = "IDLE"]_vars

FinishedAttempts == (1..nAttempts) \ {w.id : w \in workers}

\* the step appends exactly one event, of one of `kinds', to the queue
PostsOne(kinds) ==
    /\ Len(queue') = Len(queue) + 1
    /\ SubSeq(queue', 1, Len(queue)) = queue
    /\ queue'[Len(queue')].kind \in kinds

\* the step of a worker thread: it leaves the state alone and posts one event
WorkerStepPostsOne ==
    /\ (last'.op = "recognize_done") =>
           (/\ state' = state
            /\ PostsOne({EVENT_RECOGNITION_RESULT, EVENT_RECOGNITION_ERROR}))
    /\ (last'.op = "send_done") =>
           (/\ state' = state
            /\ PostsOne({EVENT_SEND_COMPLETE, EVENT_SEND_ERROR}))

\* C9: every worker attempt posts exactly one event (none while it runs, one
\* when it has ended, whether the call returned, returned failure or raised):
\* a recognition worker recognition_result or recognition_error, an injection
\* worker send_complete or send_error; the step of a worker thread never
\* writes the state.
C9_WorkerPostsOneEvent ==
    /\ [](/\ \A a \in FinishedAttempts : posts[a] = 1
          /\ \A w \in workers : posts[w.id] = 0)
    /\ [][WorkerStepPostsOne]_vars

C9_Witness ==
    /\ last.op = "recognize_done"
    /\ queue # <<>>
    /\ queue[Len(queue)].kind = EVENT_RECOGNITION_ERROR
    /\ FinishedAttempts # {}

\* C10 (as claimed): recognize and send_message are invoked at most once per
\* session, and after a recognition or injection failure neither is invoked
\* until a new activation and deactivation edge have been accepted.
C10_NoRetry ==
    [][/\ \A s \in Sessions : recogCalls'[s] <= 1 /\ sendCalls'[s] <= 1
       /\ failed => recogCalls' = recogCalls /\ sendCalls' = sendCalls]_vars

\* the labels of the steps in which the handler of an event of `kind' runs
HandlerOps(kind) ==
    CASE kind = EVENT_RECORDING_STOPPED ->
             {"stopped_empty", "stopped_unconfigured", "stopped_recognize"}
      [] kind = EVENT_RECOGNITION_RESULT -> {"result_empty", "result_send"}
      [] kind = EVENT_RECOGNITION_ERROR -> {"recognition_error"}
      [] kind = EVENT_SEND_COMPLETE -> {"send_complete"}
      [] kind = EVENT_SEND_ERROR -> {"send_error"}

EventKinds ==
    {EVENT_RECORDING_STOPPED, EVENT_RECOGNITION_RESULT, EVENT_RECOGNITION_ERROR,
     EVENT_SEND_COMPLETE, EVENT_SEND_ERROR}

AllHandlerOps == UNION {HandlerOps(k) : k \in EventKinds}

\* the step runs the handler of the oldest queued event and removes that event
HandlesHead ==
    /\ dispPc = "polling" /\ dispPc' = "polling"
    /\ queue # <<>>
    /\ queue' = Tail(queue)
    /\ last'.op \in HandlerOps(Head(queue).kind)
    /\ last'.sess = Head(queue).sess

\* the step puts one event behind the queued ones
AppendsOne ==
    /\ Len(queue') = Len(queue) + 1
    /\ SubSeq(queue', 1, Len(queue)) = queue

\* C11: the queue changes only by one event appended behind the others or by
\* the dispatch loop removing the oldest event, whose handler runs in that
\* very step; a handler runs in no other step, so events are handled in the
\* order they were enqueued, each once, one handler per step of the single
\* dispatch loop, and no queued event is altered, dropped or overtaken.
C11_FifoExactlyOnce ==
    [][/\ (queue' # queue) => (AppendsOne \/ HandlesHead)
       /\ (last'.op \in AllHandlerOps) => HandlesHead]_vars

\* an event was handled while a younger one of another session stayed queued
C11_Witness ==
    /\ last.op \in AllHandlerOps
    /\ queue # <<>>
    /\ queue[1].sess # last.sess

\* the threads that carry a session forward keep running: the dispatch loop
\* polls, a deactivation callback that released _lock goes on, and every
\* recognize and send_message call ends
Fairness ==
    /\ WF_vars(poll_start \/ poll_queue \/ schedule_poll)
    /\ WF_vars(on_deactivate_body)
    /\ \A t \in TimerIds : WF_vars(timer_deactivate_body(t))
    /\ WF_vars(\E w \in workers, raised \in BOOLEAN, text \in Texts :
                   recognize_done(w, raised, text))
    /\ WF_vars(\E w \in workers, outcome \in {"ok", "fail", "raise"} :
                   send_done(w, outcome))

FairSpec == Spec /\ Fairness

\* C12: under fair scheduling of the dispatch loop, the callbacks and the
\* workers, whenever the state is Recognizing or Sending it later is Idle,
\* unless the application is quit; runs with manual resets included.
C12_EventuallyIdle ==
    (state \in {"RECOGNIZING", "SENDING"}) ~> (state = "IDLE" \/ ~running)

\* the state came back to Idle through the handler of send_complete
C12_Witness ==
    /\ last.op = "send_complete"
    /\ state = "IDLE"
    /\ running

C14_QuitStopsDispatch ==
    /\ [](~running => ~listening)
    /\ [][(~running /\ dispPc # "polling") =>
             (/\ dispPc' # "polling"
              /\ Len(queue') >= Len(queue)
              /\ last'.op \notin AllHandlerOps
              /\ hkKeys' = hkKeys
              /\ nSess' = nSess)]_vars

\* a worker posted its event after quit, and the event stays in the queue
C14_Witness ==
    /\ ~running
    /\ dispPc = "stopped"
    /\ last.op \in {"recognize_done", "send_done"}
    /\ queue # <<>>

\* ----------------------------------------------- claims on the engine
\* the latest call of try_write typed the message
Written ==
    \E i \in DOMAIN cli.f.acts : cli.f.acts[i].op = "type"

\* the failing paths of send_message and the texts that describe them
PathErrors ==
    IF cli.f.message = <<>> THEN {ERR_EMPTY_TEXT}
    ELSE IF ~pywinauto THEN {ERR_NO_PYWINAUTO}
    ELSE IF ~cli.f.enumerated THEN {ERR_NOT_FOUND, ERR_HWND_NO_UIA}
    ELSE IF ~Written THEN {ERR_ENUMERATE, ERR_NO_CONTROLS, ERR_NO_WRITABLE}
    ELSE {ERR_SUBMIT}

\* C15: when send_message has returned, last_error is non-empty exactly if
\* it returned failure, and then it is the text of the path that failed
\* (empty input, backend unavailable, target not found, no writable control,
\* submit failed); a call that returned success leaves last_error empty,
\* whatever last_error was when the call began.
C15_LastErrorIffFailure ==
    /\ cli.f.ret = "ok" => cli.last_error = ""
    /\ cli.f.ret = "fail" => cli.last_error # "" /\ cli.last_error \in PathErrors
    /\ cli.f.pc \notin {"idle"} => cli.last_error = ""

\* a call began on an engine whose earlier call had failed, and the old
\* text is gone
C15_Witness ==
    /\ cli.f.prev
    /\ cli.f.pc = "find"
    /\ cli.last_error = ""

\* the same letter, in either case
SameLetter(a, b) ==
    \/ a = b
    \/ \E n \in DOMAIN UPPER : {a, b} = {UPPER[n], LOWERCASE[n]}

\* sub occurs in s when the case of letters is ignored
ContainsIgnoringCase(sub, s) ==
    \E i \in 0..(Len(s) - Len(sub)) :
        \A j \in 1..Len(sub) : SameLetter(s[i + j], sub[j])

Keywords == {KW_OPENCODE, KW_NOTEPAD, lower(KW_OPENCODE), <<"C", "O", "D", "E">>}
Titles == {w.title : w \in Windows} \cup {<<>>, lower(KW_NOTEPAD)}

\* the title test of enum_proc on the keywords and the titles of the model
TitleTestIgnoresCase ==
    /\ \A k \in Keywords, t \in Titles :
           title_matches(k, t) <=> ContainsIgnoringCase(k, t)
    /\ title_matches(KW_OPENCODE, TITLE_UNTITLED)
    /\ ~title_matches(KW_OPENCODE, KW_NOTEPAD)

\* C16: the title test of window discovery is the case-insensitive substring
\* test: it accepts "OpenCode - untitled" and rejects "Notepad" for the
\* keyword "OpenCode"; a poll that met a visible, large enough window whose
\* title contains the keyword in any case has matched a window, and the
\* window discovery returns has the keyword in its title in some case, or
\* belongs to a process of OpenCode.
C16_TitleMatch ==
    /\ TitleTestIgnoresCase
    /\ \A i \in DOMAIN polled :
           LET w == polled[i]
           IN  (/\ w.visible /\ looks_like_window(w)
                /\ ContainsIgnoringCase(cli.window_title_keyword, w.title))
                   => cli.f.last_hwnd
    /\ cli.f.win # <<>> =>
           \/ ContainsIgnoringCase(cli.window_title_keyword, cli.f.win[1].title)
           \/ looks_like_opencode_process(cli.f.win[1].image)

\* the poll met Notepad, then "OpenCode - untitled", and returned the latter
C16_Witness ==
    /\ cli.f.pc = "focus"
    /\ Len(polled) = 2
    /\ polled[1].title = KW_NOTEPAD
    /\ polled[1].image = IMAGE_NOTEPAD
    /\ cli.f.win[1].title = TITLE_UNTITLED
    /\ cli.window_title_keyword = KW_OPENCODE

\* C17 (as claimed): while an injection attempt searches for the window, the
\* keyword of the engine is the configured window_title_keyword, for every
\* configured non-empty keyword.
C17_ConfiguredKeywordUsed ==
    (cli.f.pc = "find" /\ get_window_title_keyword(config) # <<>>)
        => cli.window_title_keyword = get_window_title_keyword(config)

\* the window is one window discovery looks for
Matches(w) ==
    /\ w.visible
    /\ w.width > MIN_WINDOW_SIZE /\ w.height > MIN_WINDOW_SIZE
    /\ \/ ContainsIgnoringCase(cli.window_title_keyword, w.title)
       \/ looks_like_opencode_process(w.image)

\* the first window of the desktop of the latest poll that matches, 0: none
FirstMatch ==
    LET d == polled
        m == {i \in DOMAIN d : Matches(d[i])}
    IN  IF m = {} THEN 0 ELSE CHOOSE i \in m : \A j \in m : i <= j

\* a step of the discovery loop
DiscoveryStep ==
    /\ cli.f.pc = "find" /\ cli'.f.pc = "find" =>
           cli'.f.clock >= cli.f.clock + SLEEP
    /\ cli.f.pc = "find" /\ cli'.f.pc = "idle" =>
           /\ ~(cli.f.clock < DEADLINE)
           /\ cli'.f.ret = "fail"
           /\ cli'.last_error =
                  IF cli.f.last_hwnd THEN ERR_HWND_NO_UIA ELSE ERR_NOT_FOUND
           /\ ~cli'.f.enumerated
           /\ cli'.f.acts = <<>> /\ cli'.f.tried = <<>>

Attempted ==
    {cli.f.tried[i] : i \in DOMAIN cli.f.tried}
        \union {cli.f.acts[i].ctrl : i \in DOMAIN cli.f.acts}

\* the control is higher than the height cap of the window
TooTall(c) == height(c.rect[1]) * 100 > HEIGHT_CAP_PCT * height(WIN_RECT)

\* the control is narrower than the width floor of the window
TooNarrow(c) == width(c.rect[1]) * 100 < WIDTH_FLOOR_PCT * width(WIN_RECT)

\* the enumerated descendants are the controls A, B and C, in some order
IsABC(ctrls) ==
    Len(ctrls) = 3 /\ {ctrls[i] : i \in 1..3} = {CTRL_A, CTRL_B, CTRL_C}

\* in the loops over try_write no attempted control is too tall or too
\* narrow, and of A, B and C only C is a candidate
SizeFiltersApplied ==
    /\ \A i \in Attempted :
           /\ cli.f.ctrls[i].rect # <<>>
           /\ ~TooTall(cli.f.ctrls[i])
           /\ ~TooNarrow(cli.f.ctrls[i])
    /\ IsABC(cli.f.ctrls) =>
           /\ Len(cli.f.order) = 1
           /\ cli.f.ctrls[cli.f.order[1]] = CTRL_C
           /\ \A i \in Attempted : cli.f.ctrls[i] = CTRL_C

\* C19 as stated: a control higher than the height cap or narrower than the
\* width floor of the window is never attempted, and of the controls A
\* (height 90%), B (width 10%) and C (height 10%, width 50%, at the bottom)
\* the first and only one attempted is C.
C19_SizeFiltersAlways ==
    cli.f.pc \in {"write", "submit"} => SizeFiltersApplied

\* C19, amended: the same whenever the rectangle of the window could be
\* read; the size tests are relative to that rectangle and are skipped
\* when win.rectangle() raised.
C19_SizeFilters ==
    (cli.f.pc \in {"write", "submit"} /\ cli.f.win_rect # <<>>)
        => SizeFiltersApplied

\* A, B and C were enumerated with A first, the rectangle of the window was
\* read, and the message has been written into C
C19_Witness ==
    /\ cli.f.pc = "submit"
    /\ cli.f.win_rect # <<>>
    /\ IsABC(cli.f.ctrls)
    /\ cli.f.ctrls[1] = CTRL_A
    /\ \E i \in DOMAIN cli.f.acts :
           cli.f.acts[i].op = "type" /\ cli.f.ctrls[cli.f.acts[i].ctrl] = CTRL_C

\* the element is one the filter is to discard: invisible, disabled, or with
\* a degenerate or far off-screen rectangle
Discardable(c) ==
    \/ ~c.visible
    \/ ~c.enabled
    \/ /\ c.rect # <<>>
       /\ \/ width(c.rect[1]) <= 0
          \/ height(c.rect[1]) <= 0
          \/ c.rect[1].right < -FAR_OFFSCREEN
          \/ c.rect[1].bottom < -FAR_OFFSCREEN

\* C20: no element that is invisible, disabled, or has a degenerate or far
\* off-screen rectangle is attempted for a write, whatever the enumerated
\* elements are, also when every one of them is invisible or disabled.
C20_DiscardedNeverAttempted ==
    cli.f.pc \in {"write", "submit"} =>
        \A i \in Attempted : ~Discardable(cli.f.ctrls[i])

\* the controls try_write has been called on in the running call, in the
\* order of the calls
AttemptSeq ==
    IF cli.f.pc = "submit" THEN Append(cli.f.tried, cli.f.acts[1].ctrl)
    ELSE cli.f.tried

\* the bottom edge of the control lies within the bottom band of the window:
\* 35% of its height, or the absolute minimum band if that is more
InBand(c) ==
    \/ WIN_RECT.bottom - c.rect[1].bottom <= MIN_BOTTOM_BAND
    \/ (WIN_RECT.bottom - c.rect[1].bottom) * 100
           <= BOTTOM_BAND_PCT * height(WIN_RECT)

\* the control a may be attempted before the control b
MayPrecede(a, b) ==
    /\ InBand(a) \/ ~InBand(b)
    /\ InBand(a) = InBand(b) =>
           /\ a.set_edit_text \/ ~b.set_edit_text
           /\ a.set_edit_text = b.set_edit_text =>
                  a.rect[1].bottom >= b.rect[1].bottom

\* the attempts so far are the beginning of the computed order, and they
\* come bottom band first, then by structured text assignment, then by
\* bottom edge
AttemptsOrdered ==
    /\ AttemptSeq = SubSeq(cli.f.order, 1, Len(AttemptSeq))
    /\ \A p, q \in DOMAIN AttemptSeq :
           p < q => MayPrecede(cli.f.ctrls[AttemptSeq[p]],
                               cli.f.ctrls[AttemptSeq[q]])

TypedInto == {cli.f.acts[i].ctrl : i \in {j \in DOMAIN cli.f.acts :
                                             cli.f.acts[j].op = "type"}}

\* a successful write is the last call of try_write: the controls given up
\* before it failed, and the call is in or past _submit_message
WriteIsLast ==
    TypedInto # {} =>
        /\ cli.f.pc \in {"submit", "idle"}
        /\ Cardinality(TypedInto) = 1
        /\ \A i \in DOMAIN cli.f.tried : cli.f.tried[i] \notin TypedInto

\* the step after a successful write is _submit_message and the return: no
\* control is focused, cleared or typed into
SearchEnded ==
    cli.f.pc = "submit" =>
        /\ cli'.f.pc = "idle"
        /\ cli'.f.tried = cli.f.tried
        /\ Len(cli'.f.acts) = Len(cli.f.acts) + 1
        /\ SubSeq(cli'.f.acts, 1, Len(cli.f.acts)) = cli.f.acts
        /\ cli'.f.acts[Len(cli'.f.acts)].op \in {"submit", "submit_raised"}

\* C22: the first candidate whose write succeeds ends the search: after a
\* successful write no further candidate is focused, cleared or typed into
\* in that call, so the text is typed successfully into at most one control
\* per call of send_message.
C22_FirstSuccessEndsSearch == []WriteIsLast /\ [][SearchEnded]_vars

\* a write succeeded after an earlier candidate had failed and while a
\* later candidate was still in the list
C22_Witness ==
    /\ cli.f.pc = "submit"
    /\ cli.f.tried # <<>>
    /\ cli.f.idx < Len(cli.f.order)
    /\ TypedInto # {}

\* the entries of the log that are calls of send_keys with the submit key
SubmitActs ==
    {i \in DOMAIN cli.f.acts : cli.f.acts[i].op \in {"submit", "submit_raised"}}

\* the configured value reads ctrl+enter, whatever the case of its letters
\* and the blanks around it
IsCtrlEnter(v) ==
    \E i \in 0..(Len(v) - Len(SK_CTRL_ENTER)) :
        /\ \A j \in 1..Len(SK_CTRL_ENTER) : SameLetter(v[i + j], SK_CTRL_ENTER[j])
        /\ \A j \in DOMAIN v :
               (j <= i \/ j > i + Len(SK_CTRL_ENTER)) => v[j] = " "

\* the keys the configured send key stands for
ExpectedKeys ==
    IF IsCtrlEnter(config.send_key) THEN "^{ENTER}" ELSE "{ENTER}"

\* C23: after a successful write the submit key is sent exactly once in the
\* call of send_message: Ctrl+Enter when the configured send key is
\* ctrl+enter, plain Enter when it is enter, anything else or empty; no
\* submit key is sent when no write succeeded, nor before a write.
C23_SubmitOnce ==
    /\ Cardinality(SubmitActs) <= 1
    /\ \A i \in SubmitActs :
           /\ cli.f.acts[i].via = ExpectedKeys
           /\ i = Len(cli.f.acts)
           /\ TypedInto # {}
    /\ cli.f.pc # "idle" => SubmitActs = {}
    /\ (cli.f.pc = "idle" /\ TypedInto # {}) => SubmitActs # {}
    /\ cli.f.ret = "ok" =>
           \E i \in SubmitActs : cli.f.acts[i].op = "submit"

\* a call returned after the write and Ctrl+Enter, the configuration file
\* holding the send key with capitals and blanks
C23_Witness ==
    /\ cli.f.pc = "idle"
    /\ cli.f.ret = "ok"
    /\ config.send_key = SK_RAW
    /\ \E i \in SubmitActs : cli.f.acts[i].via = "^{ENTER}"

\* C24: in the write step a failure to focus the candidate control is not
\* fatal for the candidate: the message is still typed into a control whose
\* set_focus failed (and the candidate counts as written if that succeeds).
C24_FocusFailureTolerated ==
    \A i \in DOMAIN cli.f.acts :
        cli.f.acts[i].op = "focus_raised" =>
            \E j \in DOMAIN cli.f.acts :
                /\ j > i
                /\ cli.f.acts[j].op \in {"type", "type_raised"}
                /\ cli.f.acts[j].ctrl = cli.f.acts[i].ctrl

\* C25: the characters delivered to the control by a successful write are
\* the recognized text passed to the engine, verbatim: none reordered,
\* dropped, escaped or turned into a key command.
C25_RoundTrip ==
    TypedInto # {} => cli.f.delivered = cli.f.message

\* the step is a call of stop_recording whose result is enqueued: the result
\* is the chunks of the clip that was open, nothing if no clip was open
StopReturnsClip ==
    last'.op = "deactivate_done" =>
        queue'[Len(queue')].audio = (IF clipOpen THEN frames ELSE 0)

\* C26: stop_recording returns all the frames captured since the matching
\* start_recording, also when the maximum clip duration ended the
\* recording before the call; it returns empty bytes only if nothing was
\* captured.
C26_StopReturnsFrames == [][StopReturnsClip]_vars

\* every thread keeps running: also the activation callback, the manual
\* reset, and the idle Timer, which fires unless it is cancelled
HotkeyFairness ==
    /\ Fairness
    /\ WF_vars(on_activate_body)
    /\ WF_vars(reset_body)
    /\ \A t \in TimerIds : WF_vars(timer_fire(t))
    /\ \A t \in TimerIds : WF_vars(timer_deactivate(t))

FairHotkeySpec == Spec /\ HotkeyFairness

\* C27: every on_activate callback of the hotkey listener is followed, at
\* the release of the chord or else when the idle Timer fires, by an
\* on_deactivate callback, also when the hotkey is configured anew while
\* the chord is active (unless the application is quit).
C27_ActivateThenDeactivate ==
    (last.op \in {"activate", "activate_noop"})
        ~> (last.op \in {"deactivate", "deactivate_noop"} \/ ~running)

\* a step that changes the state is the dispatch loop handling the oldest
\* queued event, or the manual reset
StateWrittenByDispatch ==
    state' # state =>
        \/ last'.op = "reset"
        \/ /\ dispPc = "polling"
           /\ queue # <<>> /\ queue' = Tail(queue)
           /\ last'.op \in HandlerOps(Head(queue).kind)

\* C28: every change of the state caused by a hotkey edge or a worker
\* completion is made on the dispatch thread: the trigger is first queued as
\* an event and the state is written only while the dispatch loop handles
\* that event, the manual reset being the only exception.
C28_StateOnDispatchThread == [][StateWrittenByDispatch]_vars

\* no hotkey callback, manual reset or Timer callback is between two of its
\* steps (the handlers of the dispatch loop are single steps)
Quiescent ==
    /\ lisPc = "idle"
    /\ resetPc = "idle"
    /\ \A t \in TimerIds : timers[t].pc \in {"off", "armed"}

\* C29: in every quiescent state the recorder is recording only if the
\* state is Recording, whatever the interleaving of manual resets, hotkey
\* callbacks and stale events has been.
C29_RecorderFollowsState ==
    (Quiescent /\ recording) => state = "RECORDING"

\* C30: the test and the write of the state in _on_activate and
\* _on_deactivate are one step under _lock. An activation edge is accepted
\* only in Idle, and then it alone moves Idle to Recording, opens a new
\* session and goes on to start_recording; a deactivation edge is accepted
\* only in Recording, and then it alone moves Recording to Recognizing, so of
\* a chord release racing the idle Timer only one is accepted. Each accepted
\* deactivation enqueues one recording_stopped event, and no recording has
\* more than one accepted deactivation or recording_stopped event pending.
StoppedPending(s) ==
    (IF lisPc = "deact_mid" /\ lisSess = s THEN 1 ELSE 0)
        + Cardinality({t \in TimerIds :
                          timers[t].pc = "deact_mid" /\ timers[t].sess = s})
        + Cardinality({i \in DOMAIN queue :
                          /\ queue[i].kind = EVENT_RECORDING_STOPPED
                          /\ queue[i].sess = s})

OneStopPerRecording ==
    /\ \A s \in 1..MaxSessions : StoppedPending(s) <= 1
    /\ state = "RECORDING" => StoppedPending(nSess) = 0

DeactMid(ts, pc, sess) ==
    (IF pc = "deact_mid" THEN {<<0, sess>>} ELSE {})
        \cup {<<t, ts[t].sess>> : t \in {u \in TimerIds : ts[u].pc = "deact_mid"}}

CheckAndSet ==
    /\ last'.op = "activate"
          => /\ state = "IDLE" /\ state' = "RECORDING"
             /\ nSess' = nSess + 1
             /\ lisPc' = "act_mid" /\ lisSess' = nSess'
    /\ last'.op = "activate_noop"
          => state # "IDLE" /\ UNCHANGED <<state, nSess, lisPc>>
    /\ last'.op = "activate_done"
          => recording' /\ lisPc = "act_mid" /\ lisPc' = "idle"
    /\ last'.op = "deactivate"
          => /\ state = "RECORDING" /\ state' = "RECOGNIZING"
             /\ last'.sess = nSess
             /\ Cardinality(DeactMid(timers', lisPc', lisSess')
                                \ DeactMid(timers, lisPc, lisSess)) = 1
    /\ last'.op = "deactivate_noop"
          => /\ state # "RECORDING" /\ state' = state
             /\ DeactMid(timers', lisPc', lisSess')
                    = DeactMid(timers, lisPc, lisSess)
    /\ last'.op = "deactivate_done"
          => /\ queue' = Append(queue, queue'[Len(queue')])
             /\ queue'[Len(queue')].kind = EVENT_RECORDING_STOPPED
             /\ queue'[Len(queue')].sess = last'.sess
             /\ Cardinality(DeactMid(timers, lisPc, lisSess)
                                \ DeactMid(timers', lisPc', lisSess')) = 1
    /\ state' = "RECORDING" /\ state # "RECORDING" => last'.op = "activate"
    /\ (state' = "RECOGNIZING" /\ state # "RECOGNIZING")
          => last'.op = "deactivate"
    /\ (Len(queue') > Len(queue)
            /\ queue'[Len(queue')].kind = EVENT_RECORDING_STOPPED)
          => last'.op = "deactivate_done"

C30_AtomicCheckAndSet ==
    []OneStopPerRecording /\ [][CheckAndSet]_vars

C30_Witness ==
    /\ last.op = "deactivate_noop"
    /\ state = "RECOGNIZING"
    /\ lisPc = "deact_mid" /\ lisSess = nSess

\* C31: the callbacks of the HotkeyListener alternate, on_activate first.
\* Checked here through a consequence: the orchestrator is in Recording only
\* from an accepted on_activate until the next on_deactivate or reset, so if
\* the callbacks alternate, on_activate is never called while the state is
\* Recording - also across update_hotkey().
OnActivateCalled == last'.op \in {"activate", "activate_noop"}

C31_CallbacksAlternate ==
    [][OnActivateCalled => state # "RECORDING"]_vars

\* C32: a thread `send' ends by enqueueing exactly one event: send_error
\* with the exception text when send_message raised, send_complete when it
\* returned True, and when it returned False send_error with the last_error
\* of the engine the thread called, or the default text.
SendPosts(t) ==
    (sends[t].pc # "done" /\ sends'[t].pc = "done")
        => /\ Len(sends'[t].posted) = 1
           /\ sends[t].pc = "called"
                 => sends'[t].posted[1] = Posted(EVENT_SEND_ERROR,
                                                 EXCEPTION_TEXT)
           /\ (sends[t].pc = "returned" /\ sends[t].ok)
                 => sends'[t].posted[1].kind = EVENT_SEND_COMPLETE
           /\ (sends[t].pc = "returned" /\ ~sends[t].ok)
                 => /\ sends'[t].posted[1].kind = EVENT_SEND_ERROR
                    /\ sends'[t].posted[1].text
                           \in {lastErrors[sends[t].cli], SEND_FAILED}

C32_WorkerErrorsBecomeEvents ==
    [][\A t \in 1..MaxSendThreads : SendPosts(t)]_vars

\* C33: a call of send_message whose text is empty or only whitespace
\* returns failure with the empty-text error, and a call made without
\* pywinauto returns failure with the backend error; both return in the step
\* that began the call, with no window searched, no control enumerated or
\* focused and no key sent.
CallBegins ==
    /\ cli.f.pc = "idle"
    /\ cli' # cli
    /\ cli'.f # NoFrame

NothingTouched(c) ==
    /\ c.f.pc = "idle"
    /\ c.f.ret = "fail"
    /\ c.f.last_hwnd = FALSE
    /\ ~c.f.enumerated
    /\ c.f.total = 0
    /\ c.f.tried = <<>>
    /\ c.f.acts = <<>>
    /\ c.f.delivered = <<>>

PreconditionsFirst ==
    CallBegins
        => /\ cli'.f.message = <<>>
                 => cli'.last_error = ERR_EMPTY_TEXT /\ NothingTouched(cli')
           /\ (cli'.f.message # <<>> /\ ~pywinauto)
                 => cli'.last_error = ERR_NO_PYWINAUTO /\ NothingTouched(cli')
           /\ polled' = polled

PreconditionErrorsTouchNothing ==
    (cli.f.pc = "idle"
        /\ cli.last_error \in {ERR_EMPTY_TEXT, ERR_NO_PYWINAUTO})
        => NothingTouched(cli)

C33_PreconditionsFirst ==
    [][PreconditionsFirst]_vars /\ []PreconditionErrorsTouchNothing

C33_Witness ==
    /\ cli.last_error = ERR_NO_PYWINAUTO
    /\ cli.f.ret = "fail"
    /\ cli.f.message # <<>>
    /\ NothingTouched(cli)

\* C34: the calls one try_write makes on its control are set_focus, then the
\* clearing keys, then the message, in this order and on this control; the
\* message goes through the control's type_keys or else through send_keys and
\* through nothing else; and when the clearing keys raised, the message is
\* typed all the same.
WriteStep == SelectSeq(cli.f.acts,
                       LAMBDA a : a.op \notin {"submit", "submit_raised"})

FocusClearType ==
    WriteStep # <<>>
        => /\ \A i \in DOMAIN WriteStep : WriteStep[i].ctrl = WriteStep[1].ctrl
           /\ WriteStep[1].op \in {"focus", "focus_raised"}
           /\ WriteStep[1].op = "focus_raised" => Len(WriteStep) = 1
           /\ WriteStep[1].op = "focus"
                 => /\ Len(WriteStep) = 3
                    /\ WriteStep[2].op \in {"clear", "clear_raised"}
                    /\ WriteStep[2].op = "clear"
                          => WriteStep[2].via \in {"ctrl", "global"}
                    /\ WriteStep[3].op \in {"type", "type_raised"}
                    /\ WriteStep[3].op = "type"
                          => WriteStep[3].via \in {"ctrl", "global"}

TypedIffWritten ==
    (cli.f.pc = "submit" \/ cli.f.ret = "ok" \/ cli.last_error = ERR_SUBMIT)
        <=> (Len(WriteStep) = 3 /\ WriteStep[3].op = "type")

C34_FocusClearType == FocusClearType /\ TypedIffWritten

C34_Witness ==
    /\ cli.f.pc = "submit"
    /\ Len(WriteStep) = 3
    /\ WriteStep[2].op = "clear_raised"
    /\ WriteStep[3] = Act("type", WriteStep[1].ctrl, "global")

\* C35: a candidate whose write failed is given up and the next candidate of
\* the order is tried; when all candidates of both lists have failed, the
\* call returns failure with the no-writable-control error and the count of
\* the candidates enumerated, and no submit key has been sent.
GivenUpInOrder ==
    cli.f.pc = "write"
        => /\ cli.f.idx \in 1..(Len(cli.f.order) + 1)
           /\ cli.f.tried = SubSeq(cli.f.order, 1, cli.f.idx - 1)

NextCandidate ==
    (cli.f.pc = "write" /\ cli'.f.pc = "write")
        => /\ cli'.f.order = cli.f.order
           /\ cli'.f.idx = cli.f.idx + 1
           /\ cli'.f.acts # <<>>
           /\ cli'.f.acts[Len(cli'.f.acts)]
                  \in {Act("focus_raised", cli.f.order[cli.f.idx], ""),
                       Act("type_raised", cli.f.order[cli.f.idx], "")}

AllFailed ==
    (cli.f.pc = "write" /\ cli'.f.pc = "idle")
        => /\ cli.f.tried = cli.f.order
           /\ cli'.f.tried = cli.f.order
           /\ cli'.f.ret = "fail"
           /\ cli'.last_error = ERR_NO_WRITABLE
           /\ cli'.f.total = cli.f.total
           /\ cli.f.total \in {Len(typed_candidates(cli.f.ctrls)),
                               Len(cli.f.ctrls)}
           /\ cli.f.total >= Len(cli.f.order)
           /\ \A i \in DOMAIN cli'.f.acts :
                  cli'.f.acts[i].op \notin {"type", "submit", "submit_raised"}
           /\ cli'.f.delivered = <<>>

NoWritableOnlyWhenAllFailed ==
    cli.last_error = ERR_NO_WRITABLE
        => /\ cli.f.ret = "fail"
           /\ \A i \in DOMAIN cli.f.acts :
                  cli.f.acts[i].op \notin {"type", "submit", "submit_raised"}

C35_AllCandidatesFailed ==
    /\ [](GivenUpInOrder /\ NoWritableOnlyWhenAllFailed)
    /\ [][NextCandidate /\ AllFailed]_vars

C35_Witness ==
    /\ cli.last_error = ERR_NO_WRITABLE
    /\ Len(cli.f.tried) = 2
    /\ cli.f.total = 3
    /\ cli.f.acts = <<Act("focus", cli.f.tried[2], ""),
                      Act("clear", cli.f.tried[2], "ctrl"),
                      Act("type_raised", cli.f.tried[2], "")>>

\* the log ends with a call of send_keys for the submit key that raised
SubmitRaised ==
    cli.f.acts # <<>> /\ cli.f.acts[Len(cli.f.acts)].op = "submit_raised"

\* the step is _submit_message whose send_keys raised: the call returns
\* failure with the submit error, and no control is tried after it
SubmitFailureEnds ==
    (cli.f.pc = "submit" /\ cli'.f.ret = "fail")
        => /\ cli'.f.pc = "idle"
           /\ cli'.last_error = ERR_SUBMIT
           /\ cli'.f.tried = cli.f.tried
           /\ cli'.f.delivered = cli.f.delivered
           /\ cli'.f.acts = Append(cli.f.acts, cli'.f.acts[Len(cli'.f.acts)])
           /\ cli'.f.acts[Len(cli'.f.acts)].op = "submit_raised"

\* the submit error is that of a call whose write succeeded and whose submit
\* key raised, and of no other call
SubmitErrorDistinct ==
    /\ SubmitRaised <=> cli.last_error = ERR_SUBMIT
    /\ SubmitRaised
          => /\ cli.f.pc = "idle" /\ cli.f.ret = "fail"
             /\ Cardinality(TypedInto) = 1
             /\ \A i \in DOMAIN cli.f.tried : cli.f.tried[i] \notin TypedInto

\* C36 (engine): when the write succeeded and the submit key raised,
\* send_message returns failure with the submit error, which no other failure
\* uses, and no further candidate is tried.
C36_SubmitFailureDistinct ==
    []SubmitErrorDistinct /\ [][SubmitFailureEnds]_vars

C36_Witness ==
    /\ SubmitRaised
    /\ cli.last_error = ERR_SUBMIT
    /\ cli.f.tried # <<>>
    /\ Len(cli.f.tried) < cli.f.total

\* C36 (orchestrator): a send_message that returned failure, for this or any
\* other reason, makes the thread `send' post send_error, and dispatching
\* send_error shows one notification and sets the state to Idle.
SendErrorEndsSession ==
    [][Dispatch(EVENT_SEND_ERROR)
          => /\ last'.op = "send_error"
             /\ last'.notes = 1
             /\ state' = "IDLE"
             /\ trayStatus' = "idle"
             /\ workers' = workers]_vars

\* the descendants of the window that are of an editable-text-like role
TypedIdx(ctrls) ==
    {i \in DOMAIN ctrls : ctrls[i].control_type \in {"Edit", "Document"}}

\* the step is the enumeration, and the call goes on to the write step
EnumerationDone == cli.f.pc = "enumerate" /\ cli'.f.pc = "write"

\* the step is an enumeration whose typed queries did not raise
TypedQueriesReturned ==
    \/ enumerate(cli'.f.ctrls, TRUE, TRUE)
    \/ enumerate(cli'.f.ctrls, TRUE, FALSE)

\* the candidates are the typed elements only
OnlyTyped ==
    /\ cli'.f.total = Cardinality(TypedIdx(cli'.f.ctrls))
    /\ \A i \in DOMAIN cli'.f.order :
           cli'.f.order[i] \in TypedIdx(cli'.f.ctrls)

\* the candidates are all descendants
AllDescendants == cli'.f.total = Len(cli'.f.ctrls)

\* C37 (as claimed): whenever the window has at least one element of a typed
\* role, only typed elements are candidates, and all descendants are
\* candidates only when it has none.
C37_TypedOnlyAlways ==
    [][EnumerationDone
          => IF TypedIdx(cli'.f.ctrls) # {} THEN OnlyTyped
             ELSE AllDescendants]_vars

\* C37 (amended): when the typed queries did not raise, only typed elements
\* are candidates whenever the window has at least one, and all descendants
\* are candidates when it has none; untyped elements are candidates although
\* a typed element exists only when the typed queries raised.
C37_TypedOnly ==
    [][(EnumerationDone /\ TypedQueriesReturned)
          => IF TypedIdx(cli'.f.ctrls) # {} THEN OnlyTyped
             ELSE AllDescendants]_vars

\* the window has typed and untyped elements and only the typed ones are
\* candidates
C37_Witness ==
    /\ cli.f.pc = "write"
    /\ cli.f.idx = 1
    /\ TypedIdx(cli.f.ctrls) # {}
    /\ cli.f.total = Cardinality(TypedIdx(cli.f.ctrls))
    /\ cli.f.total < Len(cli.f.ctrls)

\* what _find_hwnd_candidate returns on the desktop of the latest poll
HwndCandidate == find_hwnd_candidate(cli.window_title_keyword, polled)

\* the window is invisible, or not larger than the threshold in both
\* dimensions
Filtered(w) ==
    \/ ~w.visible
    \/ ~(w.width > MIN_WINDOW_SIZE /\ w.height > MIN_WINDOW_SIZE)

\* the window matches by its title or by the image of its process
TitleOrProcess(w) ==
    \/ ContainsIgnoringCase(cli.window_title_keyword, w.title)
    \/ looks_like_opencode_process(w.image)

\* the handle returned is the first of the windows left by the filter that
\* matches by title or by process, and 0 when there is none
FirstOfTheRest ==
    IF HwndCandidate = 0
    THEN \A i \in DOMAIN polled :
             ~Filtered(polled[i]) => ~TitleOrProcess(polled[i])
    ELSE /\ HwndCandidate \in DOMAIN polled
         /\ ~Filtered(polled[HwndCandidate])
         /\ TitleOrProcess(polled[HwndCandidate])
         /\ \A j \in 1..(HwndCandidate - 1) :
                ~Filtered(polled[j]) => ~TitleOrProcess(polled[j])

\* C38: the enumeration of the top-level windows never returns a window that
\* is invisible or not larger than the threshold in both dimensions, whatever
\* its title; among the other windows it returns the first in the order of
\* the enumeration that matches by title or by process image, and a poll
\* that met such a window has recorded that a handle matched.
C38_EnumerationFilters ==
    /\ \A i \in DOMAIN polled : Filtered(polled[i]) => HwndCandidate # i
    /\ FirstOfTheRest
    /\ HwndCandidate # 0 => cli.f.last_hwnd

\* the poll met an invisible or narrow window titled with the keyword, then
\* a window that matches, and returned the second
C38_Witness ==
    /\ cli.f.pc = "focus"
    /\ Len(polled) = 2
    /\ Filtered(polled[1])
    /\ ContainsIgnoringCase(cli.window_title_keyword, polled[1].title)
    /\ HwndCandidate = 2
    /\ cli.f.win = <<polled[2]>>

\* win.restore() or win.set_focus() raised in the running call
WindowFocusRaised == "raised" \in {cli.f.win_restore, cli.f.win_focus}

\* whatever win.restore(), win.set_focus() and win.rectangle() did, the call
\* goes on to the enumeration of the controls, with no error recorded
FocusFailureTolerated ==
    cli.f.pc = "focus"
        => /\ cli'.f.pc = "enumerate"
           /\ cli'.f.ret = "none"
           /\ cli'.last_error = cli.last_error
           /\ cli'.f.message = cli.f.message

\* after a raise the controls are enumerated and ranked as after a focus
\* that succeeded: the call ends here only for the enumeration's own
\* errors, and otherwise goes to the write step with the ranked candidates
DiscoveryAfterRaise ==
    (cli.f.pc = "enumerate" /\ WindowFocusRaised)
        => /\ cli'.f.enumerated
           /\ \/ /\ cli'.f.pc = "idle"
                 /\ cli'.f.ret = "fail"
                 /\ cli'.last_error \in {ERR_ENUMERATE, ERR_NO_CONTROLS}
                 /\ cli'.f.acts = <<>>
              \/ /\ cli'.f.pc = "write"
                 /\ cli'.f.idx = 1
                 /\ cli'.f.total > 0
                 /\ \E typed_ok \in BOOLEAN :
                        cli'.f.order = write_order(cli'.f.ctrls, typed_ok,
                                                   cli.f.win_rect)

\* the write step runs on every ranked candidate in turn, or reports that
\* none was writable
WriteStepRuns ==
    cli.f.pc = "write"
        => \/ cli.f.idx \in DOMAIN cli.f.order
           \/ cli.f.idx = Len(cli.f.order) + 1

\* C39: an exception of win.restore() or of win.set_focus() does not end the
\* injection attempt: the call goes on to the enumeration of the controls,
\* which runs and ranks the candidates as usual, and the write step follows.
C39_FocusFailureTolerated ==
    /\ [][FocusFailureTolerated]_vars
    /\ [][DiscoveryAfterRaise]_vars
    /\ []WriteStepRuns

\* both win.restore() and win.set_focus() raised and the call is about to
\* enumerate the controls
C39_Witness ==
    /\ cli.f.pc = "enumerate"
    /\ cli.f.win_restore = "raised"
    /\ cli.f.win_focus = "raised"
    /\ cli.f.ret = "none"
    /\ cli.last_error = ""

\* start_recording while recording changes nothing
StartIdempotent ==
    recorder.recording => start_recording_of(recorder) = recorder

\* stop_recording while not recording returns empty bytes and changes
\* nothing else
StopIdempotent ==
    ~recorder.recording =>
        \A c \in 1..MaxStopCallers :
            stop_locked_of(recorder, c) = [recorder EXCEPT !.returned = <<>>]

\* the step is a stop_recording that returns the chunks
StopReturns(c) ==
    recorder.stops[c].pc = "tail" /\ recorder'.stops[c].pc = "idle"

\* no chunk returned was read from a stream older than that of the most
\* recent start_recording that had started a recording when the call of
\* stop_recording cleared _recording
OnlyOwnFrames ==
    \A c \in 1..MaxStopCallers :
        StopReturns(c) =>
            \A i \in DOMAIN recorder'.returned :
                recorder'.returned[i] >= recorder.stops[c].since

\* C40: start_recording while recording changes nothing, stop_recording
\* while not recording returns empty bytes, and the bytes a stop_recording
\* returns hold only chunks captured after the most recent start_recording
\* that started a recording.
C40_IdempotentNoLeak ==
    /\ []StartIdempotent
    /\ []StopIdempotent
    /\ [][OnlyOwnFrames]_vars

\* C40, the two idempotence clauses alone
C40_Idempotent == StartIdempotent /\ StopIdempotent

====
